---- MODULE Spec2Model ----
(***************************************************************************)
(* Model of the Spec Hub synchronizer:                                     *)
(*   - the tree injector  SpecHubClient.addTestsToItems                    *)
(*   - the collection generate-or-sync protocol                            *)
(*       SpecHubClient.generateOrSyncCollection and its two polls          *)
(*   - the orchestrator   sync(options)  of spec-hub-sync.js               *)
(*   - the tag normaliser SpecHubClient.validateTag                        *)
(*   - the read-modify-write  SpecHubClient.addTestScripts                 *)
(*   - the test generator     generateTestScriptsForSpec                   *)
(* Each part has its own specification over the shared variables:          *)
(*   InjectSpec, CollSpec, Spec (the orchestrator), TagSpec and AddSpec.   *)
(***************************************************************************)
EXTENDS Integers, Sequences, FiniteSets, TLC

VARIABLES
    \* ---- tree injector (addTestsToItems as a pure function) ----
    ipc,        \* "idle" | "input" | "returned" | "threw" | "again" | "threwAgain"
    tree,       \* collection.item before the call
    scripts,    \* the testScripts map (name -> array of statements)
    out,        \* collection.item after the call
    scriptsAgain, \* the testScripts map of a second call on the same items
    outAgain,   \* collection.item after the second call
    \* ---- generateOrSyncCollection(specId, ReqName) and the remote ----
    cpc,        \* position in generateOrSyncCollection, "idle" when not called
    wsColls,    \* remote: GET /collections?workspace=..  (array of {id, uid, name})
    genList,    \* remote: GET /specs/{specId}/generations/collection (array of {id, name})
    pendingGen, \* remote: an accepted generation request has not produced its collection yet
    existing,   \* existingCollection (NoColl when undefined)
    attempt,    \* the loop variable i of the running wait
    listing,    \* the  collections  array of the last uid-resolving listing
    cret,       \* the value returned (0 before the return)
    cerr,       \* the error thrown ("" when none)
    ccalls,     \* the remote requests issued by the call, in order
    \* ---- the orchestrator sync(options), run after run ----
    pc,         \* position in the script ("main", then sync), "idle" when not started
    run,        \* number of the current run
    opts,       \* the options of the current run
    specs,      \* remote: GET /specs?workspaceId=..  (array of {id, name})
    envs,       \* remote: GET /environments?workspace=..  (array of {uid, name})
    specId,     \* the local specId (0 for null)
    existingEnv,\* the local existingEnv (NoEnv when undefined)
    stages,     \* the stages that started in the current run, in order
    calls,      \* the remote requests issued in the current run, in order
    lookupFailed, \* some run so far could not list the specs
    timeline,   \* the settle delays and the collection calls of the current run
    \* ---- validateTag(tag) as a pure function ----
    tpc,        \* "idle" | "input" | "returned" | "again" | "threw"
    tag,        \* the argument, a string as the array of its characters
    tagOut,     \* validateTag(tag)
    tagAgain,   \* validateTag(validateTag(tag))
    \* ---- addTestScripts(collectionUid, testScripts) and the remote ----
    apc,        \* position in addTestScripts, "idle" when not called
    remoteItem, \* remote: the item array of the collection
    fetchedItem,\* the item array the fetch returned
    localItem,  \* collection.item of the local copy
    addScripts, \* the testScripts argument
    raced,      \* another writer updated the collection after the fetch
    writerItem, \* the item array of that writer's last update
    acalls,     \* the remote requests issued by the call, in order
    \* ---- generateTestScriptsForSpec, called several times ----
    gpc,        \* "idle" | "input" | "returned" | "between" | "again"
    api,        \* extractEndpoints(api): the array of endpoint descriptors
    level,      \* the level argument
    threshold,  \* process state: the value of RESPONSE_TIME_THRESHOLD
    scriptMap,       \* the map returned by the first call
    genLog,          \* the calls so far: arguments and returned map, in order
    \* ---- scripts/cleanup-collections.js: main() and the remote ----
    cleanPc,    \* position in main, "idle" when not started
    cleanRemote,\* remote: the collections of the workspace (array of {uid, name})
    collections,\* the collections array of the listing
    toKeep,     \* the local array toKeep
    toDelete,   \* the local array toDelete
    deleteCount,\* iterations of the delete loop that are over
    cleanCalls, \* the remote requests of the script, in order, with their status
    cleanLog    \* the outcome the script printed for each delete, in order

injVars == <<ipc, tree, scripts, out, scriptsAgain, outAgain>>

collVars == <<cpc, wsColls, genList, pendingGen, existing, attempt, listing, cret, cerr,
              ccalls>>

syncVars == <<pc, run, opts, specs, envs, specId, existingEnv, stages, calls,
              lookupFailed, timeline>>

tagVars == <<tpc, tag, tagOut, tagAgain>>

addVars == <<apc, remoteItem, fetchedItem, localItem, addScripts, raced, writerItem,
             acalls>>

genVars == <<gpc, api, level, threshold, scriptMap, genLog>>

cleanVars == <<cleanPc, cleanRemote, collections, toKeep, toDelete, deleteCount,
               cleanCalls, cleanLog>>

vars == <<ipc, tree, scripts, out, scriptsAgain, outAgain,
          cpc, wsColls, genList, pendingGen, existing, attempt, listing, cret, cerr,
          ccalls,
          pc, run, opts, specs, envs, specId, existingEnv, stages, calls,
          lookupFailed, timeline,
          tpc, tag, tagOut, tagAgain,
          apc, remoteItem, fetchedItem, localItem, addScripts, raced, writerItem,
          acalls,
          gpc, api, level, threshold, scriptMap, genLog,
          cleanPc, cleanRemote, collections, toKeep, toDelete, deleteCount,
          cleanCalls, cleanLog>>

\* the variables each part leaves alone
notInject == <<collVars, syncVars, tagVars, addVars, genVars, cleanVars>>
notColl == <<injVars, syncVars, tagVars, addVars, genVars, cleanVars>>
notSync == <<injVars, collVars, tagVars, addVars, genVars, cleanVars>>
notTag == <<injVars, collVars, syncVars, addVars, genVars, cleanVars>>
notAdd == <<injVars, collVars, syncVars, tagVars, genVars, cleanVars>>
notGen == <<injVars, collVars, syncVars, tagVars, addVars, cleanVars>>
notClean == <<injVars, collVars, syncVars, tagVars, addVars, genVars>>

(***************************************************************************)
(* Values of the variables of a part that is not running.                  *)
(***************************************************************************)
NoColl == [id |-> 0, uid |-> 0, name |-> ""]
NoGen == [id |-> 0, name |-> ""]

CleanIdle ==
    /\ cleanPc = "idle"
    /\ cleanRemote = <<>>
    /\ collections = <<>>
    /\ toKeep = <<>>
    /\ toDelete = <<>>
    /\ deleteCount = 0
    /\ cleanCalls = <<>>
    /\ cleanLog = <<>>

TagIdle ==
    /\ tpc = "idle"
    /\ tag = <<>>
    /\ tagOut = <<>>
    /\ tagAgain = <<>>

AddIdle ==
    /\ apc = "idle"
    /\ remoteItem = <<>>
    /\ fetchedItem = <<>>
    /\ localItem = <<>>
    /\ addScripts = <<>>
    /\ raced = FALSE
    /\ writerItem = <<>>
    /\ acalls = <<>>

GenIdle ==
    /\ gpc = "idle"
    /\ api = <<>>
    /\ level = ""
    /\ threshold = ""
    /\ scriptMap = <<>>
    /\ genLog = <<>>

InjectIdle ==
    /\ ipc = "idle"
    /\ scriptsAgain = <<>>
    /\ outAgain = <<>>
    /\ tree = <<>>
    /\ scripts = <<>>
    /\ out = <<>>

CollIdle ==
    /\ cpc = "idle"
    /\ wsColls = <<>>
    /\ genList = <<>>
    /\ pendingGen = FALSE
    /\ existing = NoGen
    /\ attempt = 0
    /\ listing = <<>>
    /\ cret = 0
    /\ cerr = ""
    /\ ccalls = <<>>

NoEnv == [uid |-> 0, name |-> ""]
\* the options literal of parseArgs before any argument is read
NoOpts == [spec |-> FALSE, apiKey |-> FALSE, workspaceId |-> FALSE,
           dryRun |-> FALSE, testLevel |-> "all", help |-> FALSE]

SyncIdle ==
    /\ pc = "idle"
    /\ run = 0
    /\ opts = NoOpts
    /\ specs = <<>>
    /\ envs = <<>>
    /\ specId = 0
    /\ existingEnv = NoEnv
    /\ stages = <<>>
    /\ calls = <<>>
    /\ lookupFailed = FALSE
    /\ timeline = <<>>

(***************************************************************************)
(* Bounds of the tree injector model.                                      *)
(***************************************************************************)
MaxNodes == 3       \* nodes in the item tree (any shape, so depth <= MaxNodes)
MaxEvents == 2      \* events a leaf owns before the injection

(***************************************************************************)
(* Data of the tree injector.                                              *)
(* An entry of the script map is an array of statement strings or a        *)
(* string; a string is kept as the array of its lines, what split('\n')    *)
(* makes of it (the empty string has the one line "").  A node is a record *)
(*   name, request (has a truthy request attribute), hasEvent/event (the   *)
(*   event attribute and its array), hasItem/item (the item attribute and  *)
(*   its array of child nodes).                                            *)
(* An event is a record id, listen, exec: id stands for the identity of    *)
(* the object (its position in the original array of its node); the event  *)
(* object that addTestsToItems creates has id 0.                           *)
(***************************************************************************)
ScriptA == <<"pm.test A">>
ScriptDefault == <<"pm.test default 1", "pm.test default 2">>
OldExec == <<"old">>

\* the values a property read of the script map can give
\* an array of lines (kind "array") or a string of these lines ("string")
Script(kind, lines) == [kind |-> kind, lines |-> lines]
\* a value inherited from Object.prototype: neither an array nor a string
Inherited == [kind |-> "inherited", lines |-> <<>>]
Undefined == [kind |-> "undefined", lines |-> <<>>]

\* the property names that every plain object inherits from Object.prototype
ObjectPrototypeNames ==
    { "constructor", "hasOwnProperty", "isPrototypeOf", "propertyIsEnumerable",
      "toLocaleString", "toString", "valueOf", "__proto__",
      "__defineGetter__", "__defineSetter__", "__lookupGetter__",
      "__lookupSetter__" }

Listens == {"test", "prerequest"}

\* the event arrays a node can own before injection
EventLists ==
    UNION { { [i \in 1..n |-> [id |-> i, listen |-> f[i], exec |-> OldExec]] :
                f \in [1..n -> Listens] } : n \in 0..MaxEvents }

\* the script maps: "a" and "constructor" may be keys, "b" never is,
\* "default" may be missing; an entry is an array (truthy, also the empty
\* one), the empty string (falsy) or a string of two lines
ScriptMaps ==
    { [a |-> Script("array", ScriptA), default |-> Script("array", ScriptDefault)],
      [a |-> Script("array", <<>>), default |-> Script("array", ScriptDefault)],
      [default |-> Script("array", ScriptDefault)],
      [a |-> Script("array", ScriptA)],
      [default |-> Script("array", ScriptA)],
      [a |-> Script("string", <<"">>), default |-> Script("array", ScriptDefault)],
      [a |-> Script("string", <<"pm.test S1", "pm.test S2">>),
       constructor |-> Script("array", ScriptA)] }

Node(n, req, hasEv, ev, hasIt, it) ==
    [name |-> n, request |-> req, hasEvent |-> hasEv, event |-> ev,
     hasItem |-> hasIt, item |-> it]

\* nodes without children: request leaves named "a", "b" and "constructor",
\* an empty folder, and a node that is neither a request nor a folder
ChildlessNodes(evA, evB) ==
    { Node("a", TRUE, TRUE, evA, FALSE, <<>>),
      Node("b", TRUE, evB # <<>>, evB, FALSE, <<>>),
      Node("constructor", TRUE, TRUE,
           <<[id |-> 1, listen |-> "test", exec |-> OldExec]>>, FALSE, <<>>),
      Node("f", FALSE, FALSE, <<>>, TRUE, <<>>),
      Node("x", FALSE, FALSE, <<>>, FALSE, <<>>) }

\* nodes with children: a plain folder, a folder that owns a test event of
\* its own, and a node with both a request and an item attribute
ParentNodes(evA, kids) ==
    { Node("f", FALSE, FALSE, <<>>, TRUE, kids),
      Node("g", FALSE, TRUE,
           <<[id |-> 1, listen |-> "test", exec |-> OldExec]>>, TRUE, kids),
      Node("a", TRUE, TRUE, evA, TRUE, kids) }

RECURSIVE Forests(_, _, _)
\* all item arrays with exactly n nodes
Forests(n, evA, evB) ==
    IF n = 0 THEN { <<>> }
    ELSE UNION {
           UNION { { <<t>> \o rest : rest \in Forests(n - k, evA, evB) } :
                   t \in IF k = 1 THEN ChildlessNodes(evA, evB)
                         ELSE UNION { ParentNodes(evA, kids) :
                                      kids \in Forests(k - 1, evA, evB) } }
           : k \in 1..n }

ItemTrees ==
    UNION { UNION { Forests(n, evA, evB) : n \in 0..MaxNodes } :
            evA \in EventLists,
            evB \in { <<>>, <<[id |-> 1, listen |-> "prerequest", exec |-> OldExec],
                             [id |-> 2, listen |-> "test", exec |-> OldExec]>> } }

(***************************************************************************)
(* addTestsToItems                                                          *)
(***************************************************************************)
\* the property read testScripts[name] on a plain object: an own key, else
\* what Object.prototype defines under the name, else undefined
Get(testScripts, name) ==
    IF name \in DOMAIN testScripts THEN testScripts[name]
    ELSE IF name \in ObjectPrototypeNames THEN Inherited
    ELSE Undefined

\* the truthiness of such a value: undefined and the empty string are falsy
Truthy(v) ==
    \/ v.kind \in {"array", "inherited"}
    \/ v.kind = "string" /\ v.lines # <<"">>

\* testScripts[item.name] || testScripts['default']
lookupScript(testScripts, name) ==
    LET own == Get(testScripts, name) IN
    IF Truthy(own) THEN own ELSE Get(testScripts, "default")

\* the predicate of  item.event.filter(e => e.listen !== 'test')
IsNotTest(e) == e.listen # "test"

\* the body of  if (item.request) { ... }  for one item: the item as the
\* body leaves it, and whether the body threw.  The test events are
\* filtered out before the new event object is built; building it throws a
\* TypeError when the script is neither an array nor a string (line 250)
injectRequest(item, testScripts) ==
    LET testScript == lookupScript(testScripts, item.name)
        filtered == [item EXCEPT !.hasEvent = TRUE,
                                 !.event = SelectSeq(item.event, IsNotTest)]
    IN  IF ~Truthy(testScript) THEN [item |-> item, threw |-> FALSE]
        ELSE IF testScript.kind = "inherited" THEN [item |-> filtered, threw |-> TRUE]
        ELSE [item |-> [filtered EXCEPT
                          !.event = Append(@, [id |-> 0, listen |-> "test",
                                               exec |-> testScript.lines])],
              threw |-> FALSE]

RECURSIVE addTestsToItems_allNodes(_, _)
\* mutant of addTestsToItems: the  if (item.request)  test is missing
addTestsToItems_allNodes(items, testScripts) ==
    IF items = <<>> THEN [items |-> <<>>, threw |-> FALSE]
    ELSE LET own == injectRequest(Head(items), testScripts)
             kids == IF ~own.threw /\ own.item.hasItem
                     THEN addTestsToItems_allNodes(own.item.item, testScripts)
                     ELSE [items |-> own.item.item, threw |-> FALSE]
             node == [own.item EXCEPT !.item = kids.items]
             rest == IF own.threw \/ kids.threw
                     THEN [items |-> Tail(items), threw |-> TRUE]
                     ELSE addTestsToItems_allNodes(Tail(items), testScripts)
         IN  [items |-> <<node>> \o rest.items, threw |-> rest.threw]

RECURSIVE addTestsToItems(_, _)
\* the loop of lines 235-260 over the array, item after item, each item
\* before its children: the array as the call leaves it (it is changed in
\* place), and whether the call threw; nothing after the throwing item is
\* visited
addTestsToItems(items, testScripts) ==
    IF items = <<>> THEN [items |-> <<>>, threw |-> FALSE]
    ELSE LET own == IF Head(items).request
                    THEN injectRequest(Head(items), testScripts)
                    ELSE [item |-> Head(items), threw |-> FALSE]
             kids == IF ~own.threw /\ own.item.hasItem
                     THEN addTestsToItems(own.item.item, testScripts)
                     ELSE [items |-> own.item.item, threw |-> FALSE]
             node == [own.item EXCEPT !.item = kids.items]
             rest == IF own.threw \/ kids.threw
                     THEN [items |-> Tail(items), threw |-> TRUE]
                     ELSE addTestsToItems(Tail(items), testScripts)
         IN  [items |-> <<node>> \o rest.items, threw |-> rest.threw]

(***************************************************************************)
(* The injector as a state machine: the inputs are drawn in InjectInit,    *)
(* the single action applies the function.                                 *)
(***************************************************************************)
InjectInit ==
    /\ ipc = "input"
    /\ tree \in ItemTrees
    /\ scripts \in ScriptMaps
    /\ out = <<>>
    /\ scriptsAgain = <<>>
    /\ outAgain = <<>>
    /\ CollIdle
    /\ SyncIdle
    /\ TagIdle
    /\ AddIdle
    /\ GenIdle
    /\ CleanIdle

AddTestsToItems ==
    /\ ipc = "input"
    /\ LET result == addTestsToItems(tree, scripts)
       IN  /\ out' = result.items
           /\ ipc' = IF result.threw THEN "threw" ELSE "returned"
    /\ UNCHANGED <<tree, scripts, scriptsAgain, outAgain>>
    /\ UNCHANGED notInject

\* a second call of addTestsToItems on the items the first call left, with
\* the same or with another script map
AddTestsToItemsAgain ==
    /\ ipc = "returned"
    /\ \E testScripts \in ScriptMaps :
         LET result == addTestsToItems(out, testScripts)
         IN  /\ scriptsAgain' = testScripts
             /\ outAgain' = result.items
             /\ ipc' = IF result.threw THEN "threwAgain" ELSE "again"
    /\ UNCHANGED <<tree, scripts, out>>
    /\ UNCHANGED notInject

InjectNext ==
    \/ AddTestsToItems
    \/ AddTestsToItemsAgain

InjectSpec == InjectInit /\ [][InjectNext]_vars

(***************************************************************************)
(* Properties of the tree injector.                                        *)
(***************************************************************************)
IsTest(e) == e.listen = "test"

RECURSIVE LeavesInjected(_, _)
\* every request node of `before` has, at the same place of `after`, exactly
\* one test event and the same other events in the same order
LeavesInjected(before, after) ==
    /\ Len(after) = Len(before)
    /\ \A i \in 1..Len(before) :
         /\ before[i].request =>
              /\ Len(SelectSeq(after[i].event, IsTest)) = 1
              /\ SelectSeq(after[i].event, IsNotTest)
                    = SelectSeq(before[i].event, IsNotTest)
         /\ LeavesInjected(before[i].item, after[i].item)

\* C5: after addTestsToItems with a script map that has a "default" entry,
\* every leaf (node with a request) at every depth has exactly one event
\* with listen = 'test', and its other events are the same objects in the
\* same relative order as before the call.
C5_OneTestEventPerLeaf ==
    (ipc \in {"returned", "threw"} /\ "default" \in DOMAIN scripts)
        => (ipc = "returned" /\ LeavesInjected(tree, out))

RECURSIVE Skeleton(_)
\* the tree without the event arrays: names, request attributes, child order
Skeleton(items) ==
    [i \in 1..Len(items) |->
        [name |-> items[i].name, request |-> items[i].request,
         hasItem |-> items[i].hasItem, item |-> Skeleton(items[i].item)]]

RECURSIVE NonLeafEventsSame(_, _)
\* the nodes without a request keep their event attribute as it was
NonLeafEventsSame(before, after) ==
    /\ Len(after) = Len(before)
    /\ \A i \in 1..Len(before) :
         /\ ~before[i].request =>
              /\ after[i].hasEvent = before[i].hasEvent
              /\ after[i].event = before[i].event
         /\ NonLeafEventsSame(before[i].item, after[i].item)

RECURSIVE HasFolderWithEvent(_)
HasFolderWithEvent(items) ==
    \E i \in 1..Len(items) :
        \/ ~items[i].request /\ items[i].hasItem /\ items[i].event # <<>>
               /\ items[i].item # <<>>
        \/ HasFolderWithEvent(items[i].item)

\* C6: addTestsToItems never adds, removes or reorders nodes: folders,
\* leaves, each folder's ordered child list, each node's name and each
\* leaf's request are unchanged; only the event list of leaf (request)
\* nodes changes.
C6_StructurePreserved ==
    ipc \in {"returned", "threw"} =>
        /\ Skeleton(out) = Skeleton(tree)
        /\ NonLeafEventsSame(tree, out)

C6_Witness ==
    /\ ipc = "returned"
    /\ HasFolderWithEvent(tree)
    /\ out # tree

RECURSIVE ExecsFromMap(_, _)
\* the test event of every request node carries the script of the node's
\* name, or the default script when the name is not a key
ExecsFromMap(after, testScripts) ==
    \A i \in 1..Len(after) :
        /\ (after[i].request /\ after[i].name \in DOMAIN testScripts) =>
              /\ after[i].event # <<>>
              /\ after[i].event[Len(after[i].event)]
                    = [id |-> 0, listen |-> "test",
                       exec |-> testScripts[after[i].name].lines]
        /\ (after[i].request /\ after[i].name \notin DOMAIN testScripts
               /\ "default" \in DOMAIN testScripts) =>
              /\ after[i].event # <<>>
              /\ after[i].event[Len(after[i].event)]
                    = [id |-> 0, listen |-> "test",
                       exec |-> testScripts["default"].lines]
        /\ ExecsFromMap(after[i].item, testScripts)

\* C7: for every leaf whose name is a key of the script map the injected
\* test event's exec is the script stored under that name; for every leaf
\* whose name is not a key it is the script stored under "default".
C7_ScriptByNameOrDefault ==
    ipc \in {"returned", "threw"} =>
        (ipc = "returned" /\ ExecsFromMap(out, scripts))

RECURSIVE HasUnmatchedLeaf(_, _)
\* some request node has a name that is no key of a map without "default"
HasUnmatchedLeaf(items, testScripts) ==
    /\ "default" \notin DOMAIN testScripts
    /\ \E i \in 1..Len(items) :
         \/ items[i].request /\ items[i].name \notin DOMAIN testScripts
         \/ HasUnmatchedLeaf(items[i].item, testScripts)

\* C8: when addTestsToItems meets a leaf whose name matches no key of the
\* script map and the map has no "default" entry, the injector signals the
\* violation (raises) instead of silently leaving the leaf as it is.
C8_UnmatchedLeafRaises ==
    (ipc # "input" /\ HasUnmatchedLeaf(tree, scripts)) => ipc = "threw"

(***************************************************************************)
(* generateOrSyncCollection(specId, ReqName) against the remote service.   *)
(* Every remote request is one step and either succeeds or fails with a    *)
(* non-2xx response (request throws).  The remote finishes an accepted     *)
(* generation at a time of its own choosing, and other users of the        *)
(* workspace may delete collections while the call runs.                   *)
(***************************************************************************)
SyncMaxAttempts == 10    \* waitForCollectionSync(collectionId, maxAttempts = 10)
GenMaxAttempts == 10     \* waitForCollectionGeneration(name, maxAttempts = 10)

ReqName == "N"

\* a collection of the workspace: short id, composite uid, name
Coll(i, n) == [id |-> i, uid |-> 100 + i, name |-> n]
\* an entry of the generation listing: short id and name only
Gen(c) == [id |-> c.id, name |-> c.name]

G1 == Coll(1, ReqName)      \* generated from this spec in an earlier run
F2 == Coll(2, ReqName)      \* same name, not generated from this spec
O3 == Coll(3, "Other")      \* generated from this spec under another name
NewColl == Coll(4, ReqName) \* what the generation request of this call produces

ShortIds == { G1.id, F2.id, O3.id, NewColl.id }

\* all arrangements of the elements of S in an array
SeqsOf(S) ==
    { f \in [1..Cardinality(S) -> S] :
        \A i, j \in 1..Cardinality(S) : i # j => f[i] # f[j] }

InitWorkspaces == UNION { SeqsOf(T) : T \in SUBSET {G1, F2, O3} }

InitGenLists ==
    { <<>>, <<Gen(G1)>>, <<Gen(O3)>>, <<Gen(O3), Gen(G1)>>, <<Gen(G1), Gen(O3)>> }

\* Array.prototype.find(c => c.name === name); none stands for undefined
find(cs, name, none) ==
    IF \E i \in 1..Len(cs) : cs[i].name = name
    THEN cs[CHOOSE i \in 1..Len(cs) :
                /\ cs[i].name = name
                /\ \A j \in 1..(i - 1) : cs[j].name # name]
    ELSE none

\* one request(method, endpoint) of the client as the service sees it: the
\* endpoint with the id in its path, whether the response was 2xx, and
\* whether one of the two waits issued it
Request(method, endpoint, id, ok, inPoll) ==
    [m |-> method, r |-> endpoint, id |-> id, ok |-> ok, poll |-> inPoll]

\* s without its i-th element
RemoveAt(s, i) == SubSeq(s, 1, i - 1) \o SubSeq(s, i + 1, Len(s))

CollInit ==
    /\ cpc = "start"
    /\ wsColls \in InitWorkspaces
    /\ genList \in InitGenLists
    /\ pendingGen = FALSE
    /\ existing = NoGen
    /\ attempt = 0
    /\ listing = <<>>
    /\ cret = 0
    /\ cerr = ""
    /\ ccalls = <<>>
    /\ InjectIdle
    /\ SyncIdle
    /\ TagIdle
    /\ AddIdle
    /\ GenIdle
    /\ CleanIdle

\* mutant of GetSpecGeneratedCollections: the match is not acted upon
GetSpecGeneratedCollections_alwaysGenerates ==
    /\ cpc = "start"
    /\ \E ok \in BOOLEAN :
         /\ ccalls' = Append(ccalls, Request("GET", "generations", 0, ok, FALSE))
         /\ LET existingCollections == IF ok THEN genList ELSE <<>>
                existingCollection == find(existingCollections, ReqName, NoGen)
            IN  /\ existing' = existingCollection
                /\ cpc' = "generate"
    /\ UNCHANGED <<wsColls, genList, pendingGen, attempt, listing, cret, cerr>>
    /\ UNCHANGED notColl

\* mutant of GetSpecGeneratedCollections: a failed listing call is not caught
GetSpecGeneratedCollections_propagates ==
    /\ cpc = "start"
    /\ \E ok \in BOOLEAN :
         /\ ccalls' = Append(ccalls, Request("GET", "generations", 0, ok, FALSE))
         /\ IF ~ok
            THEN cpc' = "threw" /\ cerr' = "api_error" /\ existing' = existing
            ELSE LET existingCollection == find(genList, ReqName, NoGen)
                 IN  /\ existing' = existingCollection
                     /\ cpc' = IF existingCollection # NoGen THEN "sync" ELSE "generate"
                     /\ cerr' = cerr
    /\ UNCHANGED <<wsColls, genList, pendingGen, attempt, listing, cret>>
    /\ UNCHANGED notColl

\* lines 96-99 with getSpecGeneratedCollections (78-86): a failed listing
\* call counts as an empty listing
GetSpecGeneratedCollections ==
    /\ cpc = "start"
    /\ \E ok \in BOOLEAN :
         /\ ccalls' = Append(ccalls, Request("GET", "generations", 0, ok, FALSE))
         /\ LET existingCollections == IF ok THEN genList ELSE <<>>
                existingCollection == find(existingCollections, ReqName, NoGen)
            IN  /\ existing' = existingCollection
                /\ cpc' = IF existingCollection # NoGen THEN "sync" ELSE "generate"
    /\ UNCHANGED <<wsColls, genList, pendingGen, attempt, listing, cret, cerr>>
    /\ UNCHANGED notColl

\* mutant of SyncCollectionWithSpec: a failed call is issued once more
SyncCollectionWithSpec_retries ==
    /\ cpc = "sync"
    /\ \E ok \in BOOLEAN :
         /\ ccalls' = Append(ccalls, Request("PUT", "synchronizations", existing.id, ok, FALSE))
         /\ IF ok
            THEN cpc' = "waitSync" /\ attempt' = 0 /\ cerr' = cerr
            ELSE IF Len(ccalls) < 2
            THEN cpc' = "sync" /\ cerr' = cerr /\ attempt' = attempt
            ELSE cpc' = "threw" /\ cerr' = "api_error" /\ attempt' = attempt
    /\ UNCHANGED <<wsColls, genList, pendingGen, existing, listing, cret>>
    /\ UNCHANGED notColl

\* line 104, syncCollectionWithSpec (154-159)
SyncCollectionWithSpec ==
    /\ cpc = "sync"
    /\ \E ok \in BOOLEAN :
         /\ ccalls' = Append(ccalls, Request("PUT", "synchronizations", existing.id, ok, FALSE))
         /\ IF ok
            THEN cpc' = "waitSync" /\ attempt' = 0 /\ cerr' = cerr
            ELSE cpc' = "threw" /\ cerr' = "api_error" /\ attempt' = attempt
    /\ UNCHANGED <<wsColls, genList, pendingGen, existing, listing, cret>>
    /\ UNCHANGED notColl

\* mutant of WaitForCollectionSync: running out of attempts is an error
WaitForCollectionSync_throws ==
    /\ cpc = "waitSync"
    /\ attempt < SyncMaxAttempts
    /\ \E ok \in BOOLEAN :
         /\ ccalls' = Append(ccalls, Request("GET", "collection", existing.id, ok, TRUE))
         /\ IF ok
            THEN cpc' = "resolveSynced" /\ attempt' = attempt /\ cerr' = cerr
            ELSE /\ attempt' = attempt + 1
                 /\ cpc' = IF attempt + 1 < SyncMaxAttempts
                           THEN "waitSync" ELSE "threw"
                 /\ cerr' = IF attempt + 1 < SyncMaxAttempts
                            THEN cerr ELSE "timeout"
    /\ UNCHANGED <<wsColls, genList, pendingGen, existing, listing, cret>>
    /\ UNCHANGED notColl

\* mutant of WaitForCollectionSync: a fetch that fails is not caught
WaitForCollectionSync_propagates ==
    /\ cpc = "waitSync"
    /\ attempt < SyncMaxAttempts
    /\ \E ok \in BOOLEAN :
         /\ ccalls' = Append(ccalls, Request("GET", "collection", existing.id, ok, TRUE))
         /\ IF ok
            THEN cpc' = "resolveSynced" /\ attempt' = attempt /\ cerr' = cerr
            ELSE cpc' = "threw" /\ attempt' = attempt /\ cerr' = "api_error"
    /\ UNCHANGED <<wsColls, genList, pendingGen, existing, listing, cret>>
    /\ UNCHANGED notColl

\* one iteration of the loop of waitForCollectionSync (164-181): sleep, then
\* getCollection; a fetch that throws is swallowed; when the loop runs out
\* the function warns and returns
WaitForCollectionSync ==
    /\ cpc = "waitSync"
    /\ attempt < SyncMaxAttempts
    /\ \E ok \in BOOLEAN :
         /\ ccalls' = Append(ccalls, Request("GET", "collection", existing.id, ok, TRUE))
         /\ IF ok
            THEN cpc' = "resolveSynced" /\ attempt' = attempt
            ELSE /\ attempt' = attempt + 1
                 /\ cpc' = IF attempt + 1 < SyncMaxAttempts
                           THEN "waitSync" ELSE "resolveSynced"
    /\ UNCHANGED <<wsColls, genList, pendingGen, existing, listing, cret, cerr>>
    /\ UNCHANGED notColl

\* mutant of ResolveSyncedUid: the id of the generation listing is returned
ResolveSyncedUid_shortId ==
    /\ cpc = "resolveSynced"
    /\ \E ok \in BOOLEAN :
         /\ ccalls' = Append(ccalls, Request("GET", "collections", 0, ok, FALSE))
         /\ IF ~ok
            THEN /\ cpc' = "threw" /\ cerr' = "api_error"
                 /\ UNCHANGED <<listing, cret>>
            ELSE /\ listing' = wsColls
                 /\ cpc' = "returned" /\ cret' = existing.id /\ cerr' = cerr
    /\ UNCHANGED <<wsColls, genList, pendingGen, existing, attempt>>
    /\ UNCHANGED notColl

\* lines 109-117: list the workspace, find by name, return the uid
ResolveSyncedUid ==
    /\ cpc = "resolveSynced"
    /\ \E ok \in BOOLEAN :
         /\ ccalls' = Append(ccalls, Request("GET", "collections", 0, ok, FALSE))
         /\ IF ~ok
            THEN /\ cpc' = "threw" /\ cerr' = "api_error"
                 /\ UNCHANGED <<listing, cret>>
            ELSE LET collection == find(wsColls, ReqName, NoColl) IN
                 /\ listing' = wsColls
                 /\ IF collection = NoColl
                    THEN cpc' = "threw" /\ cerr' = "synced_not_found" /\ cret' = cret
                    ELSE cpc' = "returned" /\ cret' = collection.uid /\ cerr' = cerr
    /\ UNCHANGED <<wsColls, genList, pendingGen, existing, attempt>>
    /\ UNCHANGED notColl

\* lines 120-135: the generation request
RequestGeneration ==
    /\ cpc = "generate"
    /\ \E ok \in BOOLEAN :
         /\ ccalls' = Append(ccalls, Request("POST", "generations", 0, ok, FALSE))
         /\ IF ok
            THEN /\ cpc' = "waitGen" /\ attempt' = 0 /\ pendingGen' = TRUE
                 /\ cerr' = cerr
            ELSE /\ cpc' = "threw" /\ cerr' = "api_error"
                 /\ UNCHANGED <<attempt, pendingGen>>
    /\ UNCHANGED <<wsColls, genList, existing, listing, cret>>
    /\ UNCHANGED notColl

\* mutant of WaitForCollectionGeneration: running out of attempts only warns
WaitForCollectionGeneration_warns ==
    /\ cpc = "waitGen"
    /\ attempt < GenMaxAttempts
    /\ \E ok \in BOOLEAN :
         /\ ccalls' = Append(ccalls, Request("GET", "collections", 0, ok, TRUE))
         /\ IF ~ok
            THEN cpc' = "threw" /\ cerr' = "api_error" /\ attempt' = attempt
            ELSE IF find(wsColls, ReqName, NoColl) # NoColl
            THEN cpc' = "resolveGenerated" /\ attempt' = attempt /\ cerr' = cerr
            ELSE /\ attempt' = attempt + 1
                 /\ cpc' = IF attempt + 1 < GenMaxAttempts
                           THEN "waitGen" ELSE "resolveGenerated"
                 /\ cerr' = cerr
    /\ UNCHANGED <<wsColls, genList, pendingGen, existing, listing, cret>>
    /\ UNCHANGED notColl

\* mutant of WaitForCollectionGeneration: a failed listing is swallowed and
\* counts as an attempt
WaitForCollectionGeneration_swallows ==
    /\ cpc = "waitGen"
    /\ attempt < GenMaxAttempts
    /\ \E ok \in BOOLEAN :
         /\ ccalls' = Append(ccalls, Request("GET", "collections", 0, ok, TRUE))
         /\ IF ok /\ find(wsColls, ReqName, NoColl) # NoColl
            THEN cpc' = "resolveGenerated" /\ attempt' = attempt /\ cerr' = cerr
            ELSE /\ attempt' = attempt + 1
                 /\ cpc' = IF attempt + 1 < GenMaxAttempts
                           THEN "waitGen" ELSE "threw"
                 /\ cerr' = IF attempt + 1 < GenMaxAttempts
                            THEN cerr ELSE "timeout"
    /\ UNCHANGED <<wsColls, genList, pendingGen, existing, listing, cret>>
    /\ UNCHANGED notColl

\* one iteration of the loop of waitForCollectionGeneration (186-199):
\* sleep, then list the workspace (a failed listing throws); return when
\* the name is listed; when the loop runs out the function throws
WaitForCollectionGeneration ==
    /\ cpc = "waitGen"
    /\ attempt < GenMaxAttempts
    /\ \E ok \in BOOLEAN :
         /\ ccalls' = Append(ccalls, Request("GET", "collections", 0, ok, TRUE))
         /\ IF ~ok
            THEN cpc' = "threw" /\ cerr' = "api_error" /\ attempt' = attempt
            ELSE IF find(wsColls, ReqName, NoColl) # NoColl
            THEN cpc' = "resolveGenerated" /\ attempt' = attempt /\ cerr' = cerr
            ELSE /\ attempt' = attempt + 1
                 /\ cpc' = IF attempt + 1 < GenMaxAttempts
                           THEN "waitGen" ELSE "threw"
                 /\ cerr' = IF attempt + 1 < GenMaxAttempts
                            THEN cerr ELSE "timeout"
    /\ UNCHANGED <<wsColls, genList, pendingGen, existing, listing, cret>>
    /\ UNCHANGED notColl

\* mutant of ResolveGeneratedUid: no check that the collection was found
ResolveGeneratedUid_unchecked ==
    /\ cpc = "resolveGenerated"
    /\ \E ok \in BOOLEAN :
         /\ ccalls' = Append(ccalls, Request("GET", "collections", 0, ok, FALSE))
         /\ IF ~ok
            THEN /\ cpc' = "threw" /\ cerr' = "api_error"
                 /\ UNCHANGED <<listing, cret>>
            ELSE LET collection == find(wsColls, ReqName, NoColl) IN
                 /\ listing' = wsColls
                 /\ cpc' = "returned" /\ cret' = collection.uid /\ cerr' = cerr
    /\ UNCHANGED <<wsColls, genList, pendingGen, existing, attempt>>
    /\ UNCHANGED notColl

\* lines 140-148: list the workspace, find by name, return the uid
ResolveGeneratedUid ==
    /\ cpc = "resolveGenerated"
    /\ \E ok \in BOOLEAN :
         /\ ccalls' = Append(ccalls, Request("GET", "collections", 0, ok, FALSE))
         /\ IF ~ok
            THEN /\ cpc' = "threw" /\ cerr' = "api_error"
                 /\ UNCHANGED <<listing, cret>>
            ELSE LET collection == find(wsColls, ReqName, NoColl) IN
                 /\ listing' = wsColls
                 /\ IF collection = NoColl
                    THEN cpc' = "threw" /\ cerr' = "generated_not_found" /\ cret' = cret
                    ELSE cpc' = "returned" /\ cret' = collection.uid /\ cerr' = cerr
    /\ UNCHANGED <<wsColls, genList, pendingGen, existing, attempt>>
    /\ UNCHANGED notColl

CollRunning == cpc \notin {"idle", "returned", "threw"}

\* the remote finishes the generation: the new collection shows up in the
\* workspace listing (at either end) and in the generation listing
RemoteFinishesGeneration ==
    /\ CollRunning
    /\ pendingGen
    /\ pendingGen' = FALSE
    /\ \/ wsColls' = Append(wsColls, NewColl)
       \/ wsColls' = <<NewColl>> \o wsColls
    /\ genList' = Append(genList, Gen(NewColl))
    /\ UNCHANGED <<cpc, existing, attempt, listing, cret, cerr, ccalls>>
    /\ UNCHANGED notColl

\* another user of the workspace deletes a collection
RemoteDeletesCollection ==
    /\ CollRunning
    /\ \E i \in 1..Len(wsColls) : wsColls' = RemoveAt(wsColls, i)
    /\ UNCHANGED <<cpc, genList, pendingGen, existing, attempt, listing, cret, cerr,
                   ccalls>>
    /\ UNCHANGED notColl

CollNext ==
    \/ GetSpecGeneratedCollections
    \/ SyncCollectionWithSpec
    \/ WaitForCollectionSync
    \/ ResolveSyncedUid
    \/ RequestGeneration
    \/ WaitForCollectionGeneration
    \/ ResolveGeneratedUid
    \/ RemoteFinishesGeneration
    \/ RemoteDeletesCollection

CollSpec == CollInit /\ [][CollNext]_vars

\* the call keeps running: the timer of the sleep fires and the fetch gets
\* its response
CollLiveSpec == CollSpec /\ WF_vars(WaitForCollectionSync)

(***************************************************************************)
(* Properties of generateOrSyncCollection.                                 *)
(***************************************************************************)
OnGenerationPath == cpc \in {"generate", "waitGen", "resolveGenerated"}

\* C2: on the generation path, if none of the maxAttempts workspace
\* listings of waitForCollectionGeneration contains the requested name, the
\* operation raises a timeout error and never returns a uid.
\* (attempt counts the listings of the wait that came back without the name)
C2_GenerationTimeout ==
    (existing = NoGen /\ attempt = GenMaxAttempts)
        => (cpc = "threw" /\ cerr = "timeout" /\ cret = 0)

C2_Witness ==
    /\ cpc = "threw"
    /\ cerr = "timeout"
    /\ attempt = GenMaxAttempts
    /\ existing = NoGen
    /\ cret = 0

\* C3: on the sync path, when all maxAttempts fetches of
\* waitForCollectionSync fail, the wait returns normally and the operation
\* goes on to the uid-resolving listing; running out of attempts raises no
\* error there, while in the generation wait it always does.
C3_SyncWaitExhaustionContinues ==
    [][/\ (cpc = "waitSync" /\ attempt' = SyncMaxAttempts)
            => (cpc' = "resolveSynced" /\ cerr' = "")
       /\ (cpc = "waitGen" /\ attempt' = GenMaxAttempts)
            => cpc' = "threw"]_vars

C3_Witness ==
    /\ cpc = "returned"
    /\ existing # NoGen
    /\ attempt = SyncMaxAttempts
    /\ cret # 0

\* C4: every value returned by generateOrSyncCollection, on both paths, is
\* the uid of an entry of the workspace listing fetched after the wait, and
\* never the short id of the generation listing.
C4_ReturnsListedUid ==
    cpc = "returned" =>
        /\ \E i \in 1..Len(listing) :
              listing[i].name = ReqName /\ listing[i].uid = cret
        /\ cret \notin ShortIds

C4_Witness ==
    /\ cpc = "returned"
    /\ existing # NoGen
    /\ cret = find(listing, ReqName, NoColl).uid
    /\ cret # existing.id

(***************************************************************************)
(* The orchestrator sync(options), run after run against the same remote   *)
(* workspace.  Every remote request is one step and either succeeds or     *)
(* fails with a non-2xx response (request throws).  An error that leaves   *)
(* sync ends the process with exit code 1 (pc = "exit1"); a return ends it *)
(* normally (pc = "done").                                                 *)
(***************************************************************************)
MaxRuns == 2        \* sequential runs of the tool

SpecName == "Task API"               \* api.info.title of the spec file
EnvName == "Task API Environment"    \* generateEnvironment(api).name

TestLevels == {"smoke", "contract", "all", "full"}

Options ==
    [spec : BOOLEAN, apiKey : BOOLEAN, workspaceId : BOOLEAN,
     dryRun : BOOLEAN, testLevel : TestLevels, help : BOOLEAN]

NoSpec == [id |-> 0, name |-> ""]

InitSpecStores ==
    { <<>>,
      <<[id |-> 1, name |-> "Other API"]>>,
      <<[id |-> 2, name |-> SpecName]>>,
      <<[id |-> 1, name |-> "Other API"], [id |-> 2, name |-> SpecName]>> }

InitEnvStores ==
    { <<>>, <<[uid |-> 201, name |-> "Other Environment"]>> }

\* the identifiers the remote mints
FreshSpecId(ss) ==
    LET ids == {9} \cup { ss[i].id : i \in 1..Len(ss) }
    IN  1 + CHOOSE m \in ids : \A k \in ids : k <= m
FreshEnvUid(es) == 210 + Len(es)

\* the methods that class SpecHubClient of spec-hub-client.js defines, the
\* class that sync imports
ClientMethods ==
    { "request", "uploadSpec", "getSpecGeneratedCollections",
      "generateOrSyncCollection", "syncCollectionWithSpec",
      "waitForCollectionSync", "waitForCollectionGeneration",
      "getCollection", "updateCollection", "addTestScripts",
      "addTestsToItems", "deleteSpec", "deleteCollection", "listSpecs",
      "findSpecByName" }

\* client.m(...) throws "TypeError: client.m is not a function" unless the
\* class defines m
IsFunction(m) == m \in ClientMethods

\* mutant of generateSmoke: every tier but 'contract' selects the smoke stages
generateSmoke_unlessContract(o) == o.testLevel # "contract"
generateSmoke(o) == o.testLevel = "all" \/ o.testLevel = "smoke"
generateContract(o) == o.testLevel = "all" \/ o.testLevel = "contract"

SettleDelayMs == 3000   \* setTimeout(resolve, 3000)

\* the entries of the timeline: the settle delay of a stage, and the call
\* of client.generateCollection of a stage
SettleDelay(stage) == [e |-> "delay", stage |-> stage, ms |-> SettleDelayMs]
CollectionCall(stage) == [e |-> "generateCollection", stage |-> stage, ms |-> 0]

\* one remote request of the log
Call(m, r, id, ok) == [m |-> m, r |-> r, id |-> id, ok |-> ok]

\* mutant of StageAfter: the docs collection is generated before the upload
StageAfter_docsFirst(stage, o) ==
    CASE stage = "parse" -> "resolve"
      [] stage = "resolve" -> "docs"
      [] stage = "docs" -> "upload"
      [] stage = "upload" -> IF generateSmoke(o) THEN "smoke"
                             ELSE IF generateContract(o) THEN "contract" ELSE "env"
      [] stage = "smoke" -> IF generateContract(o) THEN "contract" ELSE "env"
      [] stage = "contract" -> "env"
      [] stage = "env" -> "summarize"
      [] stage = "summarize" -> "done"

\* the statement order of sync: where control goes when a stage completes
StageAfter(stage, o) ==
    CASE stage = "parse" -> "resolve"
      [] stage = "resolve" -> "upload"
      [] stage = "upload" -> "docs"
      [] stage = "docs" -> IF generateSmoke(o) THEN "smoke"
                           ELSE IF generateContract(o) THEN "contract" ELSE "env"
      [] stage = "smoke" -> IF generateContract(o) THEN "contract" ELSE "env"
      [] stage = "contract" -> "env"
      [] stage = "env" -> "summarize"
      [] stage = "summarize" -> "done"

Init ==
    /\ pc = "main"
    /\ run = 1
    /\ opts \in Options
    /\ specs \in InitSpecStores
    /\ envs \in InitEnvStores
    /\ specId = 0
    /\ existingEnv = NoEnv
    /\ stages = <<>>
    /\ calls = <<>>
    /\ lookupFailed = FALSE
    /\ timeline = <<>>
    /\ InjectIdle
    /\ CollIdle
    /\ TagIdle
    /\ AddIdle
    /\ GenIdle
    /\ CleanIdle

\* the process is started again (the tool keeps no state between runs)
NextRun ==
    /\ pc \in {"done", "exit0", "exit1"}
    /\ run < MaxRuns
    /\ run' = run + 1
    /\ opts' \in Options
    /\ pc' = "main"
    /\ specId' = 0
    /\ existingEnv' = NoEnv
    /\ stages' = <<>>
    /\ calls' = <<>>
    /\ timeline' = <<>>
    /\ UNCHANGED <<specs, envs, lookupFailed>>
    /\ UNCHANGED notSync

\* lines 345-356: with options.help the help text is printed and the process
\* exits with status 0; else sync(options) is called
Main ==
    /\ pc = "main"
    /\ pc' = IF opts.help THEN "exit0" ELSE "validate"
    /\ UNCHANGED <<timeline, run, opts, specs, envs, specId, existingEnv, stages, calls,
                   lookupFailed>>
    /\ UNCHANGED notSync

\* another user of the workspace deletes a spec (deleteSpec,
\* DELETE /specs/{id}) while a run is under way or between two runs
RemoteDeletesSpec ==
    /\ pc # "idle"
    /\ \E i \in 1..Len(specs) : specs' = RemoveAt(specs, i)
    /\ UNCHANGED <<timeline, pc, run, opts, envs, specId, existingEnv, stages, calls,
                   lookupFailed>>
    /\ UNCHANGED notSync

\* the spec with this id is in the remote store
SpecExists(ss, id) == \E i \in 1..Len(ss) : ss[i].id = id

\* mutant of ValidateOptions: the workspace id is not checked
ValidateOptions_noWorkspaceCheck ==
    /\ pc = "validate"
    /\ pc' = IF ~opts.spec \/ ~opts.apiKey THEN "exit1" ELSE "parse"
    /\ UNCHANGED <<timeline, run, opts, specs, envs, specId, existingEnv, stages, calls,
                   lookupFailed>>
    /\ UNCHANGED notSync

\* lines 172-200: option validation
ValidateOptions ==
    /\ pc = "validate"
    /\ pc' = IF ~opts.spec \/ ~opts.apiKey \/ ~opts.workspaceId
             THEN "exit1" ELSE "parse"
    /\ UNCHANGED <<timeline, run, opts, specs, envs, specId, existingEnv, stages, calls,
                   lookupFailed>>
    /\ UNCHANGED notSync

\* mutant of ParseSpec: the dry-run return is missing
ParseSpec_noDryRunReturn ==
    /\ pc = "parse"
    /\ stages' = Append(stages, "ParseSpec")
    /\ \E parsed \in BOOLEAN :
         pc' = IF ~parsed THEN "exit1" ELSE StageAfter("parse", opts)
    /\ UNCHANGED <<timeline, run, opts, specs, envs, specId, existingEnv, calls, lookupFailed>>
    /\ UNCHANGED notSync

\* lines 202-211: parseSpec (may throw), then the dry-run return
ParseSpec ==
    /\ pc = "parse"
    /\ stages' = Append(stages, "ParseSpec")
    /\ \E parsed \in BOOLEAN :
         pc' = IF ~parsed THEN "exit1"
               ELSE IF opts.dryRun THEN "done"
               ELSE StageAfter("parse", opts)
    /\ UNCHANGED <<timeline, run, opts, specs, envs, specId, existingEnv, calls, lookupFailed>>
    /\ UNCHANGED notSync

\* mutant of ResolveExistingSpec: the error of the lookup is not caught
ResolveExistingSpec_propagates ==
    /\ pc = "resolve"
    /\ stages' = Append(stages, "ResolveExistingSpec")
    /\ \E ok \in BOOLEAN :
         /\ calls' = Append(calls, Call("GET", "specs", 0, ok))
         /\ specId' = IF ok THEN find(specs, SpecName, NoSpec).id ELSE 0
         /\ lookupFailed' = (lookupFailed \/ ~ok)
         /\ pc' = IF ok THEN StageAfter("resolve", opts) ELSE "exit1"
    /\ UNCHANGED <<timeline, run, opts, specs, envs, existingEnv>>
    /\ UNCHANGED notSync

\* lines 213-226: findSpecByName (listSpecs + find); an error is swallowed
ResolveExistingSpec ==
    /\ pc = "resolve"
    /\ stages' = Append(stages, "ResolveExistingSpec")
    /\ \E ok \in BOOLEAN :
         /\ calls' = Append(calls, Call("GET", "specs", 0, ok))
         /\ specId' = IF ok THEN find(specs, SpecName, NoSpec).id ELSE 0
         /\ lookupFailed' = (lookupFailed \/ ~ok)
    /\ pc' = StageAfter("resolve", opts)
    /\ UNCHANGED <<timeline, run, opts, specs, envs, existingEnv>>
    /\ UNCHANGED notSync

\* mutant of UploadSpec: the spec is created whether or not an id was passed
UploadSpec_alwaysPosts ==
    /\ pc = "upload"
    /\ stages' = Append(stages, "UploadSpec")
    /\ \E readable, ok \in BOOLEAN :
         IF ~readable
         THEN /\ UNCHANGED <<calls, specs, specId>>
              /\ pc' = "exit1"
         ELSE IF FALSE
         THEN /\ calls' = Append(calls, Call("PATCH", "specs", specId, ok))
              /\ UNCHANGED <<specs, specId>>
              /\ pc' = IF ok THEN StageAfter("upload", opts) ELSE "exit1"
         ELSE /\ calls' = Append(calls, Call("POST", "specs", 0, ok))
              /\ IF ok
                 THEN /\ specs' = Append(specs, [id |-> FreshSpecId(specs),
                                                 name |-> SpecName])
                      /\ specId' = FreshSpecId(specs)
                      /\ pc' = StageAfter("upload", opts)
                 ELSE /\ UNCHANGED <<specs, specId>>
                      /\ pc' = "exit1"
    /\ UNCHANGED <<timeline, run, opts, envs, existingEnv, lookupFailed>>
    /\ UNCHANGED notSync

\* lines 228-232: the spec file is read again (line 230; an error of
\* readFileSync leaves sync before any request), then uploadSpec (50-73):
\* PATCH when specId is set, else POST; the PATCH of a spec that is no
\* longer in the store is answered with 404
UploadSpec ==
    /\ pc = "upload"
    /\ stages' = Append(stages, "UploadSpec")
    /\ \E readable, ok \in BOOLEAN :
         IF ~readable
         THEN /\ UNCHANGED <<calls, specs, specId>>
              /\ pc' = "exit1"
         ELSE IF specId # 0
         THEN /\ ok => SpecExists(specs, specId)
              /\ calls' = Append(calls, Call("PATCH", "specs", specId, ok))
              /\ UNCHANGED <<specs, specId>>
              /\ pc' = IF ok THEN StageAfter("upload", opts) ELSE "exit1"
         ELSE /\ calls' = Append(calls, Call("POST", "specs", 0, ok))
              /\ IF ok
                 THEN /\ specs' = Append(specs, [id |-> FreshSpecId(specs),
                                                 name |-> SpecName])
                      /\ specId' = FreshSpecId(specs)
                      /\ pc' = StageAfter("upload", opts)
                 ELSE /\ UNCHANGED <<specs, specId>>
                      /\ pc' = "exit1"
    /\ UNCHANGED <<timeline, run, opts, envs, existingEnv, lookupFailed>>
    /\ UNCHANGED notSync

\* lines 236-249: client.generateCollection is called inside try/catch; the
\* class has no such method, the TypeError is caught and logged
GenerateDocsCollection ==
    /\ pc = "docs"
    /\ ~IsFunction("generateCollection")
    /\ timeline' = Append(timeline, CollectionCall("docs"))
    /\ stages' = Append(stages, "GenerateDocsCollection")
    /\ pc' = StageAfter("docs", opts)
    /\ UNCHANGED <<run, opts, specs, envs, specId, existingEnv, calls, lookupFailed>>
    /\ UNCHANGED notSync

\* mutant of GenerateSmokeCollection: the error of the generation is caught
\* as in the docs stage and addTestScripts is called without a uid
GenerateSmokeCollection_injectsAnyway ==
    /\ pc = "smoke"
    /\ ~IsFunction("generateCollection")
    /\ timeline' = timeline \o <<SettleDelay("smoke"), CollectionCall("smoke"),
                                  [e |-> "addTestScripts", stage |-> "smoke", ms |-> 0]>>
    /\ stages' = Append(stages, "GenerateSmokeCollection")
    /\ pc' = StageAfter("smoke", opts)
    /\ UNCHANGED <<run, opts, specs, envs, specId, existingEnv, calls, lookupFailed>>
    /\ UNCHANGED notSync

\* lines 251-261: settle delay, then client.generateCollection outside any
\* try/catch; the TypeError leaves sync, lines 262-272 are not reached
GenerateSmokeCollection ==
    /\ pc = "smoke"
    /\ ~IsFunction("generateCollection")
    /\ timeline' = timeline \o <<SettleDelay("smoke"), CollectionCall("smoke")>>
    /\ stages' = Append(stages, "GenerateSmokeCollection")
    /\ pc' = "exit1"
    /\ UNCHANGED <<run, opts, specs, envs, specId, existingEnv, calls, lookupFailed>>
    /\ UNCHANGED notSync

\* mutant of GenerateContractCollection: the call follows at once
GenerateContractCollection_noDelay ==
    /\ pc = "contract"
    /\ ~IsFunction("generateCollection")
    /\ timeline' = Append(timeline, CollectionCall("contract"))
    /\ stages' = Append(stages, "GenerateContractCollection")
    /\ pc' = "exit1"
    /\ UNCHANGED <<run, opts, specs, envs, specId, existingEnv, calls, lookupFailed>>
    /\ UNCHANGED notSync

\* lines 274-285: the same for the contract collection; lines 286-297 are
\* not reached
GenerateContractCollection ==
    /\ pc = "contract"
    /\ ~IsFunction("generateCollection")
    /\ timeline' = timeline \o <<SettleDelay("contract"), CollectionCall("contract")>>
    /\ stages' = Append(stages, "GenerateContractCollection")
    /\ pc' = "exit1"
    /\ UNCHANGED <<run, opts, specs, envs, specId, existingEnv, calls, lookupFailed>>
    /\ UNCHANGED notSync

\* mutant of ListEnvironments: the environment that was found is not used
ListEnvironments_ignoresMatch ==
    /\ pc = "env"
    /\ stages' = Append(stages, "UpsertEnvironment")
    /\ \E ok \in BOOLEAN :
         /\ calls' = Append(calls, Call("GET", "environments", 0, ok))
         /\ existingEnv' = existingEnv
         /\ pc' = IF ok THEN "envWrite" ELSE "exit1"
    /\ UNCHANGED <<timeline, run, opts, specs, envs, specId, lookupFailed>>
    /\ UNCHANGED notSync

\* lines 299-306: list the environments and look the name up
ListEnvironments ==
    /\ pc = "env"
    /\ stages' = Append(stages, "UpsertEnvironment")
    /\ \E ok \in BOOLEAN :
         /\ calls' = Append(calls, Call("GET", "environments", 0, ok))
         /\ IF ok
            THEN existingEnv' = find(envs, EnvName, NoEnv) /\ pc' = "envWrite"
            ELSE existingEnv' = existingEnv /\ pc' = "exit1"
    /\ UNCHANGED <<timeline, run, opts, specs, envs, specId, lookupFailed>>
    /\ UNCHANGED notSync

\* mutant of WriteEnvironment: a failed write does not end the run
WriteEnvironment_ignoresFailure ==
    /\ pc = "envWrite"
    /\ \E ok \in BOOLEAN :
         /\ IF existingEnv # NoEnv
            THEN /\ calls' = Append(calls,
                                    Call("PUT", "environments", existingEnv.uid, ok))
                 /\ envs' = envs
            ELSE /\ calls' = Append(calls, Call("POST", "environments", 0, ok))
                 /\ envs' = IF ok
                            THEN Append(envs, [uid |-> FreshEnvUid(envs),
                                               name |-> EnvName])
                            ELSE envs
         /\ pc' = StageAfter("env", opts)
    /\ UNCHANGED <<timeline, run, opts, specs, specId, existingEnv, stages, lookupFailed>>
    /\ UNCHANGED notSync

\* lines 308-314: PUT the environment that was found, else POST a new one
WriteEnvironment ==
    /\ pc = "envWrite"
    /\ \E ok \in BOOLEAN :
         /\ IF existingEnv # NoEnv
            THEN /\ calls' = Append(calls,
                                    Call("PUT", "environments", existingEnv.uid, ok))
                 /\ envs' = envs
            ELSE /\ calls' = Append(calls, Call("POST", "environments", 0, ok))
                 /\ envs' = IF ok
                            THEN Append(envs, [uid |-> FreshEnvUid(envs),
                                               name |-> EnvName])
                            ELSE envs
         /\ pc' = IF ok THEN StageAfter("env", opts) ELSE "exit1"
    /\ UNCHANGED <<timeline, run, opts, specs, specId, existingEnv, stages, lookupFailed>>
    /\ UNCHANGED notSync

\* lines 316-342: the summary
Summarize ==
    /\ pc = "summarize"
    /\ stages' = Append(stages, "Summarize")
    /\ pc' = StageAfter("summarize", opts)
    /\ UNCHANGED <<timeline, run, opts, specs, envs, specId, existingEnv, calls, lookupFailed>>
    /\ UNCHANGED notSync

Next ==
    \/ NextRun
    \/ Main
    \/ RemoteDeletesSpec
    \/ ValidateOptions
    \/ ParseSpec
    \/ ResolveExistingSpec
    \/ UploadSpec
    \/ GenerateDocsCollection
    \/ GenerateSmokeCollection
    \/ GenerateContractCollection
    \/ ListEnvironments
    \/ WriteEnvironment
    \/ Summarize

Spec == Init /\ [][Next]_vars

\* every request the program sends: a run of the orchestrator or a call of
\* generateOrSyncCollection
RequestInit == Init \/ CollInit
RequestNext == Next \/ CollNext
RequestSpec == RequestInit /\ [][RequestNext]_vars

(***************************************************************************)
(* Properties of the orchestrator.                                         *)
(***************************************************************************)
\* how many specs of the store carry the name of the spec file
NameCount(ss) == Cardinality({ i \in 1..Len(ss) : ss[i].name = SpecName })

LastCall(cs) == cs[Len(cs)]

\* C1: over any sequence of runs for a spec of the same name, a run creates
\* (POST) only when no spec of that name exists, every other run issues one
\* update (PATCH) against the identifier of the existing spec and no
\* create, a run that uploads issues exactly one of the two, and so the
\* remote store never holds two specs with that name.
C1_UpsertNeverDuplicates ==
    /\ [][(pc = "upload" /\ pc' # "upload" /\ calls' # calls) =>
            /\ Len(calls') = Len(calls) + 1
            /\ LastCall(calls').m \in {"POST", "PATCH"}
            /\ LastCall(calls').m = "POST" => NameCount(specs) = 0
            /\ LastCall(calls').m = "PATCH" => LastCall(calls').id = specId]_vars
    /\ [](NameCount(specs) <= 1)

StageOrder ==
    << "ParseSpec", "ResolveExistingSpec", "UploadSpec", "GenerateDocsCollection",
       "GenerateSmokeCollection", "InjectSmokeTests",
       "GenerateContractCollection", "InjectContractTests",
       "UpsertEnvironment", "Summarize" >>

StagePos(st) == CHOOSE i \in 1..Len(StageOrder) : StageOrder[i] = st

\* C9: in every non-dry-run run the stages that execute occur in the fixed
\* order ParseSpec, ResolveExistingSpec, UploadSpec, GenerateDocsCollection,
\* GenerateSmokeCollection, InjectSmokeTests, GenerateContractCollection,
\* InjectContractTests, UpsertEnvironment, Summarize; no stage executes
\* twice or is revisited.
C9_FixedStageOrder ==
    /\ \A i \in 1..Len(stages) : \E k \in 1..Len(StageOrder) : StageOrder[k] = stages[i]
    /\ \A i, j \in 1..Len(stages) :
          i < j => StagePos(stages[i]) < StagePos(stages[j])

C9_Witness ==
    /\ pc = "done"
    /\ ~opts.dryRun
    /\ stages = << "ParseSpec", "ResolveExistingSpec", "UploadSpec",
                   "GenerateDocsCollection", "UpsertEnvironment", "Summarize" >>

InStages(st) == \E i \in 1..Len(stages) : stages[i] = st

NoCallFailed == \A i \in 1..Len(calls) : calls[i].ok

\* C10: the smoke stages (generate + inject) run iff the tier selector is
\* 'smoke' or 'all', the contract stages run iff it is 'contract' or 'all',
\* independently of each other, and the docs generation is attempted in
\* every non-dry-run run.  (Stated for the runs that have ended after the
\* upload request was sent and without a failed remote call.)
C10_TierSelectsStages ==
    (/\ pc \in {"done", "exit1"}
     /\ \E i \in 1..Len(calls) : calls[i].r = "specs" /\ calls[i].m \in {"PATCH", "POST"}
     /\ NoCallFailed) =>
        /\ InStages("GenerateDocsCollection")
        /\ (InStages("GenerateSmokeCollection") /\ InStages("InjectSmokeTests"))
              <=> generateSmoke(opts)
        /\ (InStages("GenerateContractCollection") /\ InStages("InjectContractTests"))
              <=> generateContract(opts)

\* C11: a run with dry-run enabled ends right after the spec is parsed and
\* issues no remote call of any kind, so the remote workspace is unchanged
\* by a dry run.
C11_DryRunNoRemoteCall ==
    /\ [](opts.dryRun =>
            /\ calls = <<>>
            /\ \A i \in 1..Len(stages) : stages[i] = "ParseSpec"
            /\ InStages("ParseSpec") => pc \in {"done", "exit1"})
    /\ [][(opts.dryRun /\ pc' # pc /\ run' = run)
            => (specs' = specs /\ envs' = envs)]_vars

C11_Witness ==
    /\ opts.dryRun
    /\ pc = "done"
    /\ stages = <<"ParseSpec">>
    /\ calls = <<>>

MissingRequiredOption == ~opts.spec \/ ~opts.apiKey \/ ~opts.workspaceId

\* C12 as stated: if the spec path, the credential or the workspace id is
\* missing, the run exits with a non-zero status before any remote call is
\* issued, also when dry-run is set.
C12_MissingOptionExits ==
    (MissingRequiredOption /\ pc \notin {"main", "validate"}) =>
        /\ pc = "exit1"
        /\ calls = <<>>
        /\ stages = <<>>

\* C12 amended: when the help flag is not given and the spec path, the
\* credential or the workspace id is missing, the run exits with status 1
\* before any stage and any remote call, also when dry-run is set; when the
\* help flag is given the process exits with status 0 before any stage and
\* any remote call, whatever else is given or missing.
C12_MissingOptionExitsUnlessHelp ==
    /\ (MissingRequiredOption /\ ~opts.help /\ pc \notin {"main", "validate"}) =>
          /\ pc = "exit1"
          /\ calls = <<>>
          /\ stages = <<>>
    /\ (opts.help /\ pc # "main") =>
          /\ pc = "exit0"
          /\ calls = <<>>
          /\ stages = <<>>
    /\ pc = "exit0" => opts.help

C12_Witness ==
    /\ pc = "exit1"
    /\ opts.dryRun
    /\ ~opts.help
    /\ opts.spec /\ opts.apiKey /\ ~opts.workspaceId
    /\ calls = <<>>

IsSpecLookup(c) == c.m = "GET" /\ c.r = "specs"

\* C13: if a remote call of an orchestrator stage (spec upload, collection
\* generation or sync, test injection, environment upsert: every call but
\* the lookup of ResolveExistingSpec) fails with a non-2xx response, the
\* orchestrator aborts: the failed call is the last call of the run, the
\* stage that issued it is the last stage executed, and the run ends with
\* exit code 1.
C13_FailedStageCallAborts ==
    \A i \in 1..Len(calls) :
        (~calls[i].ok /\ ~IsSpecLookup(calls[i])) =>
            /\ i = Len(calls)
            /\ pc = "exit1"
            /\ stages # <<>>
            /\ stages[Len(stages)] = IF calls[i].r = "specs" THEN "UploadSpec"
                                     ELSE "UpsertEnvironment"

C13_Witness ==
    /\ pc = "exit1"
    /\ InStages("GenerateDocsCollection")
    /\ InStages("UpsertEnvironment")
    /\ Len(calls) = 4
    /\ ~calls[1].ok
    /\ ~calls[4].ok
    /\ calls[4].r = "environments"

\* how many environments of the store carry the name of the generated one
EnvCount(es) == Cardinality({ i \in 1..Len(es) : es[i].name = EnvName })

\* C15: the environment upsert looks the environment up by exact name in
\* the workspace listing and issues exactly one PUT against the found uid
\* if it exists, otherwise exactly one POST; so after any number of
\* sequential successful runs the workspace holds exactly one environment
\* with that name.
C15_EnvironmentUpsert ==
    /\ [][(pc = "envWrite" /\ pc' # "envWrite") =>
            /\ Len(calls') = Len(calls) + 1
            /\ SubSeq(calls', 1, Len(calls)) = calls
            /\ LastCall(calls').r = "environments"
            /\ IF EnvCount(envs) > 0
               THEN /\ LastCall(calls').m = "PUT"
                    /\ LastCall(calls').id = find(envs, EnvName, NoEnv).uid
                    /\ envs' = envs
               ELSE LastCall(calls').m = "POST"]_vars
    /\ [](EnvCount(envs) <= 1)
    /\ []((pc = "done" /\ InStages("Summarize")) => EnvCount(envs) = 1)

C15_Witness ==
    /\ run = 2
    /\ pc = "done"
    /\ InStages("Summarize")
    /\ EnvCount(envs) = 1
    /\ LastCall(calls) = Call("PUT", "environments", envs[Len(envs)].uid, TRUE)
    /\ envs[Len(envs)].uid >= 210

\* the same method on the same endpoint with the same id in the path
SameRequest(a, b) == a.m = b.m /\ a.r = b.r /\ a.id = b.id

\* C14: apart from the fetches made inside the two existence polls
\* (waitForCollectionSync, waitForCollectionGeneration) no remote call is
\* ever re-issued after it failed, and every other remote request is
\* attempted at most once per stage per run.
C14_NoRetryOutsidePolls ==
    /\ \A i, j \in 1..Len(ccalls) :
         (i < j /\ SameRequest(ccalls[i], ccalls[j])) =>
            /\ ~ccalls[i].ok => (ccalls[i].poll /\ ccalls[j].poll)
            /\ ccalls[i].poll \/ ccalls[j].poll
    /\ \A i, j \in 1..Len(calls) :
         i < j => ~SameRequest(calls[i], calls[j])

C14_Witness ==
    /\ cpc = "threw"
    /\ Len(ccalls) = 5
    /\ ~ccalls[3].ok /\ ccalls[3].poll
    /\ ccalls[4].ok /\ ccalls[4].poll
    /\ SameRequest(ccalls[3], ccalls[4])
    /\ ~ccalls[5].ok /\ ~ccalls[5].poll

\* C19: generateOrSyncCollection either returns the uid of a collection
\* whose name equals the requested name in the final workspace listing or
\* raises an explicit error: when the final listing holds no collection of
\* that name it raises 'Synced collection ... not found' on the sync path
\* and 'Generated collection ... not found' on the generation path, and it
\* never returns an undefined or partial handle.
C19_UidOrNamedError ==
    /\ [][(cpc \in {"resolveSynced", "resolveGenerated"} /\ cpc' # cpc) =>
            LET collection == find(wsColls, ReqName, NoColl) IN
            IF ~LastCall(ccalls').ok
            THEN cpc' = "threw" /\ cerr' = "api_error"
            ELSE IF collection = NoColl
            THEN /\ cpc' = "threw"
                 /\ cerr' = IF cpc = "resolveSynced"
                            THEN "synced_not_found" ELSE "generated_not_found"
            ELSE /\ cpc' = "returned"
                 /\ cret' = collection.uid]_vars
    /\ [](cpc = "returned" => (cret \in { 100 + i : i \in ShortIds } /\ cerr = ""))
    /\ [](cpc = "threw" => (cret = 0 /\ cerr # ""))

C19_Witness ==
    /\ cpc = "threw"
    /\ cerr = "generated_not_found"
    /\ listing = <<O3>>
    /\ LastCall(ccalls).ok

IsSyncCall(c) == c.m = "PUT" /\ c.r = "synchronizations"
IsGenerationCall(c) == c.m = "POST" /\ c.r = "generations"
IsGenerationListing(c) == c.m = "GET" /\ c.r = "generations"
SyncCalls == { i \in 1..Len(ccalls) : IsSyncCall(ccalls[i]) }
GenerationCalls == { i \in 1..Len(ccalls) : IsGenerationCall(ccalls[i]) }
GenerationListings == { i \in 1..Len(ccalls) : IsGenerationListing(ccalls[i]) }

\* C20: in one call of generateOrSyncCollection the generation listing is
\* queried exactly once and the decision is never revisited: if the
\* listing holds a collection with the requested name, exactly one
\* synchronization call is issued against that entry's id and no
\* generation call; otherwise exactly one generation call is issued and no
\* synchronization call.
C20_DecidedOnce ==
    /\ [][(cpc = "start" /\ cpc' # "start") =>
            LET listed == IF ccalls'[1].ok THEN genList ELSE <<>>
                entry == find(listed, ReqName, NoGen)
            IN  /\ existing' = entry
                /\ cpc' = IF entry # NoGen THEN "sync" ELSE "generate"]_vars
    /\ [][cpc # "start" => existing' = existing]_vars
    /\ [](cpc \notin {"idle", "start"} =>
            /\ GenerationListings = {1}
            /\ IF existing # NoGen
               THEN /\ GenerationCalls = {}
                    /\ SyncCalls = IF cpc = "sync" THEN {} ELSE {2}
                    /\ \A i \in SyncCalls : ccalls[i].id = existing.id
               ELSE /\ SyncCalls = {}
                    /\ GenerationCalls = IF cpc = "generate" THEN {} ELSE {2})

C20_Witness ==
    /\ cpc = "returned"
    /\ genList = <<Gen(O3), Gen(G1)>>
    /\ existing = Gen(G1)
    /\ SyncCalls = {2}
    /\ ccalls[2].id = G1.id
    /\ Len(ccalls) > 4

(***************************************************************************)
(* validateTag(tag) of the client (spec-hub-sync.js 966-999).  A string is *)
(* the array of its characters.                                            *)
(***************************************************************************)
MaxEdge == 2          \* longest head and tail of an input around its filling
TagMaxLength == 64    \* if (clean.length > 64)
TagMinLength == 2     \* if (clean.length < 2)

LowerLetters == {"a", "g", "t"}
Digits == {"0", "1"}
\* the characters of the inputs: a lowercase and an uppercase letter, a
\* digit, the hyphen and a character outside [a-z0-9-] in either case
InputChars == {"a", "A", "1", "-", "#"}

\* String.prototype.toLowerCase, character by character
toLowerCase(s) == [i \in 1..Len(s) |-> IF s[i] = "A" THEN "a" ELSE s[i]]

\* the class [a-z0-9-]
IsTagChar(c) == c \in LowerLetters \cup Digits \cup {"-"}

\* .replace(/[^a-z0-9-]+/g, '-'): every maximal run of characters outside
\* the class becomes one hyphen
RECURSIVE replaceInvalid(_)
replaceInvalid(s) ==
    IF s = <<>> THEN <<>>
    ELSE IF IsTagChar(Head(s)) THEN <<Head(s)>> \o replaceInvalid(Tail(s))
    ELSE IF Len(s) > 1 /\ ~IsTagChar(s[2]) THEN replaceInvalid(Tail(s))
    ELSE <<"-">> \o replaceInvalid(Tail(s))

\* .replace(/-+$/, '')
trimTrailingHyphens(s) ==
    LET keep == { i \in 1..Len(s) : s[i] # "-" } IN
    IF keep = {} THEN <<>>
    ELSE SubSeq(s, 1, CHOOSE i \in keep : \A j \in keep : j <= i)

\* .replace(/^-+|-+$/g, '')
trimHyphens(s) ==
    LET keep == { i \in 1..Len(s) : s[i] # "-" } IN
    IF keep = {} THEN <<>>
    ELSE SubSeq(s, CHOOSE i \in keep : \A j \in keep : i <= j,
                   CHOOSE i \in keep : \A j \in keep : j <= i)

\* /^[a-z]/.test(s)
startsWithLetter(s) == s # <<>> /\ s[1] \in LowerLetters
\* /[a-z0-9]$/.test(s)
endsWithLetterOrDigit(s) == s # <<>> /\ s[Len(s)] \in LowerLetters \cup Digits

\* String.prototype.substring(0, n)
substring(s, n) == SubSeq(s, 1, IF n < Len(s) THEN n ELSE Len(s))

TagPrefix == <<"t", "a", "g", "-">>

\* lines 971-998, for a non-empty string
validateTag(t) ==
    LET clean1 == trimHyphens(replaceInvalid(toLowerCase(t)))
        clean2 == IF ~startsWithLetter(clean1) THEN TagPrefix \o clean1 ELSE clean1
        clean3 == IF ~endsWithLetterOrDigit(clean2) THEN clean2 \o <<"0">> ELSE clean2
        clean4 == IF Len(clean3) < TagMinLength THEN TagPrefix \o clean3 ELSE clean3
        cut == trimTrailingHyphens(substring(clean4, TagMaxLength))
    IN  IF Len(clean4) > TagMaxLength
        THEN IF ~endsWithLetterOrDigit(cut)
             THEN substring(cut, TagMaxLength - 1) \o <<"0">>
             ELSE cut
        ELSE clean4

\* the strings of at most n input characters
Edges(n) == UNION { [1..k -> InputChars] : k \in 0..n }

\* n times the character c
Fill(c, n) == [i \in 1..n |-> c]

\* short fillings, and fillings that bring the input up to the length cap
FillLengths == (0..1) \cup ((TagMaxLength - 2 * MaxEdge)..(TagMaxLength + 1))

\* the inputs: a head, a filling of letters or of hyphens, a tail
TagInputs ==
    { h \o Fill(c, n) \o t :
        h \in Edges(MaxEdge), t \in Edges(MaxEdge), c \in {"a", "-"}, n \in FillLengths }

TagInit ==
    /\ tpc = "input"
    /\ tag \in TagInputs
    /\ tagOut = <<>>
    /\ tagAgain = <<>>
    /\ InjectIdle
    /\ CollIdle
    /\ SyncIdle
    /\ AddIdle
    /\ GenIdle
    /\ CleanIdle

\* lines 966-969: the empty string is rejected; otherwise the tag is cleaned
ValidateTag ==
    /\ tpc = "input"
    /\ IF tag = <<>>
       THEN tpc' = "threw" /\ tagOut' = tagOut
       ELSE tpc' = "returned" /\ tagOut' = validateTag(tag)
    /\ UNCHANGED <<tag, tagAgain>>
    /\ UNCHANGED notTag

\* the result is validated once more
ValidateTagAgain ==
    /\ tpc = "returned"
    /\ tpc' = "again"
    /\ tagAgain' = validateTag(tagOut)
    /\ UNCHANGED <<tag, tagOut>>
    /\ UNCHANGED notTag

TagNext ==
    \/ ValidateTag
    \/ ValidateTagAgain

TagSpec == TagInit /\ [][TagNext]_vars

\* C16: for every non-empty string input the output of validateTag has a
\* length between 2 and 64 inclusive, starts with a lowercase letter, ends
\* with a lowercase letter or a digit, and contains only lowercase letters,
\* digits and hyphens.
C16_TagContract ==
    tpc \in {"returned", "again"} =>
        /\ Len(tagOut) >= 2
        /\ Len(tagOut) <= 64
        /\ tagOut[1] \in LowerLetters
        /\ tagOut[Len(tagOut)] \in LowerLetters \cup Digits
        /\ \A i \in 1..Len(tagOut) : tagOut[i] \in LowerLetters \cup Digits \cup {"-"}

\* C17: validateTag is idempotent: validateTag(validateTag(s)) equals
\* validateTag(s) for every string s it accepts, also for inputs long
\* enough to be truncated and inputs with runs of hyphens around the
\* truncation point.
C17_TagIdempotent ==
    tpc = "again" => tagAgain = tagOut

(***************************************************************************)
(* addTestScripts(collectionUid, testScripts) of the client (218-229)      *)
(* against the remote collection, which other writers update as well.      *)
(***************************************************************************)
MaxRemoteNodes == 2     \* most nodes of the remote collection at the start

AddUid == G1.uid

\* the item arrays the remote collection starts with
RemoteTrees ==
    UNION { Forests(n, <<[id |-> 1, listen |-> "test", exec |-> OldExec]>>, <<>>) :
            n \in 0..MaxRemoteNodes }

\* what another writer stores: the array with one more request, or
\* without its first item
WriterUpdates(items) ==
    (IF Len(items) <= MaxRemoteNodes
     THEN { Append(items, Node("b", TRUE, FALSE, <<>>, FALSE, <<>>)) }
     ELSE {})
    \cup (IF items # <<>> THEN { Tail(items) } ELSE {})

AddInit ==
    /\ apc = "fetch"
    /\ remoteItem \in RemoteTrees
    /\ fetchedItem = <<>>
    /\ localItem = <<>>
    /\ addScripts \in ScriptMaps
    /\ raced = FALSE
    /\ writerItem = <<>>
    /\ acalls = <<>>
    /\ InjectIdle
    /\ CollIdle
    /\ SyncIdle
    /\ TagIdle
    /\ GenIdle
    /\ CleanIdle

\* lines 219-223: getCollection, then the injection into the local copy
GetCollection ==
    /\ apc = "fetch"
    /\ \E ok \in BOOLEAN :
         /\ acalls' = Append(acalls, Request("GET", "collection", AddUid, ok, FALSE))
         /\ IF ok
            THEN LET result == addTestsToItems(remoteItem, addScripts)
                 IN  /\ fetchedItem' = remoteItem
                     /\ localItem' = result.items
                     /\ apc' = IF result.threw THEN "threw" ELSE "write"
            ELSE /\ apc' = "threw"
                 /\ UNCHANGED <<fetchedItem, localItem>>
    /\ UNCHANGED <<remoteItem, addScripts, raced, writerItem>>
    /\ UNCHANGED notAdd

\* mutant of UpdateCollection: the scripts are injected into the remote
\* collection as it is at the time of the write
UpdateCollection_merges ==
    /\ apc = "write"
    /\ \E ok \in BOOLEAN :
         /\ acalls' = Append(acalls, Request("PUT", "collection", AddUid, ok, FALSE))
         /\ IF ok
            THEN /\ remoteItem' = addTestsToItems(remoteItem, addScripts).items
                 /\ apc' = "returned"
            ELSE /\ remoteItem' = remoteItem
                 /\ apc' = "threw"
    /\ UNCHANGED <<fetchedItem, localItem, addScripts, raced, writerItem>>
    /\ UNCHANGED notAdd

\* lines 226-228: updateCollection (211-213) with the whole local copy
UpdateCollection ==
    /\ apc = "write"
    /\ \E ok \in BOOLEAN :
         /\ acalls' = Append(acalls, Request("PUT", "collection", AddUid, ok, FALSE))
         /\ IF ok
            THEN /\ remoteItem' = localItem
                 /\ apc' = "returned"
            ELSE /\ remoteItem' = remoteItem
                 /\ apc' = "threw"
    /\ UNCHANGED <<fetchedItem, localItem, addScripts, raced, writerItem>>
    /\ UNCHANGED notAdd

\* another writer updates the collection while the call runs
SecondWriterUpdates ==
    /\ apc \in {"fetch", "write"}
    /\ \E items \in WriterUpdates(remoteItem) :
         /\ remoteItem' = items
         /\ IF apc = "write"
            THEN raced' = TRUE /\ writerItem' = items
            ELSE UNCHANGED <<raced, writerItem>>
    /\ UNCHANGED <<apc, fetchedItem, localItem, addScripts, acalls>>
    /\ UNCHANGED notAdd

AddNext ==
    \/ GetCollection
    \/ UpdateCollection
    \/ SecondWriterUpdates

AddSpec == AddInit /\ [][AddNext]_vars

\* C18: if a second writer updates the collection between the fetch and the
\* write-back of addTestScripts, that writer's update is overwritten by the
\* PUT of the full body fetched earlier: addTestScripts makes no version
\* check and no re-fetch before it writes, so the lost update is reachable.
C18_WriteBackOverwrites ==
    /\ [][(apc = "write" /\ apc' # "write") =>
            /\ acalls' = Append(acalls, Request("PUT", "collection", AddUid,
                                                apc' = "returned", FALSE))
            /\ remoteItem' = IF apc' = "returned"
                             THEN addTestsToItems(fetchedItem, addScripts).items
                             ELSE remoteItem]_vars
    /\ [](apc = "returned" =>
            /\ remoteItem = addTestsToItems(fetchedItem, addScripts).items
            /\ Len(acalls) = 2
            /\ acalls[1].m = "GET")

C18_Witness ==
    /\ apc = "returned"
    /\ raced
    /\ writerItem # fetchedItem
    /\ remoteItem # addTestsToItems(writerItem, addScripts).items
    /\ remoteItem = addTestsToItems(fetchedItem, addScripts).items

\* the fetches of waitForCollectionSync
SyncPolls == { i \in 1..Len(ccalls) : ccalls[i].poll /\ ccalls[i].r = "collection" }

\* C21: waitForCollectionSync always terminates: it performs at most
\* maxAttempts (10) fetches, one per iteration of sleep and fetch, returns
\* at the first fetch that succeeds, and a failed fetch is swallowed and
\* followed by the next attempt; no fetch error ever leaves the wait.
C21_SyncWaitTerminates ==
    /\ (cpc = "waitSync") ~> (cpc = "resolveSynced")
    /\ [](Cardinality(SyncPolls) <= SyncMaxAttempts)
    /\ [](\A i \in SyncPolls : ccalls[i].ok => i = Len(ccalls) \/ ~ccalls[i + 1].poll)
    /\ [][cpc = "waitSync" =>
            /\ cerr' = ""
            /\ IF ccalls' = ccalls THEN cpc' = "waitSync"
               ELSE IF LastCall(ccalls').ok THEN cpc' = "resolveSynced"
               ELSE /\ attempt' = attempt + 1
                    /\ cpc' = IF attempt' < SyncMaxAttempts
                              THEN "waitSync" ELSE "resolveSynced"]_vars

C21_Witness ==
    /\ cpc = "resolveSynced"
    /\ SyncPolls = 3..6
    /\ \A i \in 3..5 : ~ccalls[i].ok
    /\ ccalls[6].ok
    /\ attempt = 3

IsCollectionCall(ev) == ev.e = "generateCollection"

\* C22: every collection-generation request of the smoke and the contract
\* stage is preceded by the fixed settle delay, which starts after the
\* previous generation stage has finished; the orchestrator never issues
\* two generation requests back to back without that delay in between.
C22_SettleDelayBeforeGeneration ==
    \A i \in 1..Len(timeline) :
        /\ (IsCollectionCall(timeline[i]) /\ timeline[i].stage \in {"smoke", "contract"}) =>
              /\ i > 1
              /\ timeline[i - 1] = [e |-> "delay", stage |-> timeline[i].stage,
                                    ms |-> 3000]
        /\ (IsCollectionCall(timeline[i]) /\ i > 1) =>
              ~IsCollectionCall(timeline[i - 1])

C22_Witness ==
    /\ Len(timeline) = 3
    /\ IsCollectionCall(timeline[1]) /\ timeline[1].stage = "docs"
    /\ timeline[2].e = "delay"
    /\ IsCollectionCall(timeline[3]) /\ timeline[3].stage = "contract"

UploadWrites ==
    { i \in 1..Len(calls) : calls[i].r = "specs" /\ calls[i].m \in {"PATCH", "POST"} }

MaxEndpoints == 2     \* most endpoints of a specification with several

Line(text, args) == [t |-> text, a |-> args]

\* ---- the inputs: endpoint descriptors as extractEndpoints returns them ----
NoSchema == [present |-> FALSE, type |-> "", required |-> <<>>]
ObjectSchema == [present |-> TRUE, type |-> "object", required |-> <<"id", "name">>]
ArraySchema == [present |-> TRUE, type |-> "array", required |-> <<>>]
StringSchema == [present |-> TRUE, type |-> "string", required |-> <<"id">>]

\* a media type is the array of the pieces of its string around each ';'
Json == <<"application/json">>
JsonUtf8 == <<"application/json", ";", " charset=utf-8">>
Xml == <<"application/xml">>

Media(mt, sch) == [mediaType |-> mt, schema |-> sch]
Response(hasContent, content) == [hasContent |-> hasContent, content |-> content]

ResponseSpecs ==
    { Response(FALSE, <<>>),
      Response(TRUE, <<>>),
      Response(TRUE, <<Media(Json, ObjectSchema)>>),
      Response(TRUE, <<Media(JsonUtf8, NoSchema)>>),
      Response(TRUE, <<Media(Xml, NoSchema), Media(Json, ArraySchema)>>),
      Response(TRUE, <<Media(Json, StringSchema)>>) }

\* the status codes of the inputs, in the order Object.keys lists such keys
StatusCodes == <<"200", "201", "202", "404", "500">>
SuccessCodeSets == SUBSET {"200", "201", "202"}
ErrorCodeSets == { {}, {"404"}, {"404", "500"} }

\* every response of a success code, error responses without content
ResponseMaps ==
    UNION { { [c \in DOMAIN rs \cup err |->
                  IF c \in err THEN Response(FALSE, <<>>) ELSE rs[c]] :
              rs \in [ok -> ResponseSpecs] } :
            ok \in SuccessCodeSets, err \in ErrorCodeSets }

Endpoint(m, p, n, rs) == [method |-> m, path |-> p, name |-> n, responses |-> rs]

\* one endpoint with every response map
Endpoints == { Endpoint("GET", "/a", "a", rs) : rs \in ResponseMaps }

\* endpoints for specifications with several: names that repeat, a missing
\* name, the name "default"
SmallEndpoints ==
    { Endpoint(m, "/a", n, rs) :
        m \in {"GET", "POST"}, n \in {"a", "b", "", "default"},
        rs \in { [c \in {"200"} |-> Response(TRUE, <<Media(Json, ObjectSchema)>>)],
                 [c \in {"201", "404"} |-> Response(FALSE, <<>>)] } }

Apis ==
    { <<e>> : e \in Endpoints }
    \cup UNION { [1..k -> SmallEndpoints] : k \in 0..MaxEndpoints }

Levels == {"smoke", "contract"}
Thresholds == {"2000", "500"}

\* ---- Object.keys(endpoint.responses) and the filters on it ----
keys(responses) == SelectSeq(StatusCodes, LAMBDA c : c \in DOMAIN responses)

\* the first character of a status code
FirstChar(code) ==
    CASE code \in {"200", "201", "202"} -> "2"
      [] code = "404" -> "4"
      [] code = "500" -> "5"

\* statusCodes.filter(code => code.startsWith('2'))
successCodes(endpoint) ==
    SelectSeq(keys(endpoint.responses), LAMBDA c : FirstChar(c) = "2")

\* statusCodes.filter(code => code.startsWith('4') || code.startsWith('5'))
errorCodes(endpoint) ==
    SelectSeq(keys(endpoint.responses), LAMBDA c : FirstChar(c) \in {"4", "5"})

\* ---- lines 423-463 ----
\* the lines of the latency test, the same in both generators but for the
\* comment line before them
ResponseTimeTest ==
    << Line("pm.test(\"Response time is acceptable\", function () {", <<>>),
       Line("    const threshold = parseInt(pm.environment.get(\"RESPONSE_TIME_THRESHOLD\") || \"2000\");", <<>>),
       Line("    pm.expect(pm.response.responseTime).to.be.below(threshold);", <<>>),
       Line("});", <<>>),
       Line("", <<>>) >>

\* mutant of generateSmokeTestScript: only the first success code is listed
generateSmokeTestScript_firstCode(endpoint) ==
    << Line("// Smoke tests for: ${endpoint.method} ${endpoint.path}",
            <<endpoint.method, endpoint.path>>),
       Line("// Basic health checks - generated from OpenAPI spec", <<>>),
       Line("", <<>>) >>
    \o (IF Len(successCodes(endpoint)) > 0
        THEN << Line("// Status code validation", <<>>),
                Line("pm.test(\"Status code is success\", function () {", <<>>),
                Line("    pm.expect(pm.response.code).to.be.oneOf([${successCodes.join(', ')}]);",
                     <<successCodes(endpoint)[1]>>),
                Line("});", <<>>),
                Line("", <<>>) >>
        ELSE <<>>)
    \o << Line("// Performance check", <<>>) >>
    \o ResponseTimeTest
    \o << Line("// Response body exists", <<>>),
          Line("pm.test(\"Response body is not empty\", function () {", <<>>),
          Line("    if (pm.response.code >= 200 && pm.response.code < 300) {", <<>>),
          Line("        const contentType = pm.response.headers.get(\"Content-Type\");", <<>>),
          Line("        if (contentType && contentType.includes(\"application/json\")) {", <<>>),
          Line("            const jsonData = pm.response.json();", <<>>),
          Line("            pm.expect(jsonData).to.not.be.undefined;", <<>>),
          Line("        }", <<>>),
          Line("    }", <<>>),
          Line("});", <<>>) >>

generateSmokeTestScript(endpoint) ==
    << Line("// Smoke tests for: ${endpoint.method} ${endpoint.path}",
            <<endpoint.method, endpoint.path>>),
       Line("// Basic health checks - generated from OpenAPI spec", <<>>),
       Line("", <<>>) >>
    \o (IF Len(successCodes(endpoint)) > 0
        THEN << Line("// Status code validation", <<>>),
                Line("pm.test(\"Status code is success\", function () {", <<>>),
                Line("    pm.expect(pm.response.code).to.be.oneOf([${successCodes.join(', ')}]);",
                     successCodes(endpoint)),
                Line("});", <<>>),
                Line("", <<>>) >>
        ELSE <<>>)
    \o << Line("// Performance check", <<>>) >>
    \o ResponseTimeTest
    \o << Line("// Response body exists", <<>>),
          Line("pm.test(\"Response body is not empty\", function () {", <<>>),
          Line("    if (pm.response.code >= 200 && pm.response.code < 300) {", <<>>),
          Line("        const contentType = pm.response.headers.get(\"Content-Type\");", <<>>),
          Line("        if (contentType && contentType.includes(\"application/json\")) {", <<>>),
          Line("            const jsonData = pm.response.json();", <<>>),
          Line("            pm.expect(jsonData).to.not.be.undefined;", <<>>),
          Line("        }", <<>>),
          Line("    }", <<>>),
          Line("});", <<>>) >>

\* ---- lines 470-563 ----
\* String.prototype.split(';')[0]
splitFirst(mediaType) ==
    LET semis == { i \in 1..Len(mediaType) : mediaType[i] = ";" } IN
    IF semis = {} THEN mediaType
    ELSE SubSeq(mediaType, 1, (CHOOSE i \in semis : \A j \in semis : i <= j) - 1)

\* getResponseSchema(responses, code) of parser.js: the schema of the first
\* media type of that response, null when there is none
NoSchemaInfo == [found |-> FALSE, schema |-> NoSchema]
getResponseSchema(responses, code) ==
    IF /\ code \in DOMAIN responses
       /\ responses[code].hasContent
       /\ responses[code].content # <<>>
       /\ responses[code].content[1].schema.present
    THEN [found |-> TRUE, schema |-> responses[code].content[1].schema]
    ELSE NoSchemaInfo

\* getRequiredFields(schema) of parser.js: the collected required names
getRequiredFields(schema) == schema.required

\* lines 478-488
statusTest(expectedCode) ==
    << Line("// Status code validation", <<>>),
       Line("pm.test(\"Status code is ${expectedCode}\", function () {", <<expectedCode>>),
       Line("    pm.response.to.have.status(${expectedCode});", <<expectedCode>>),
       Line("});", <<>>),
       Line("", <<>>) >>

\* mutant of contractStatusTest: the last declared success code is expected
contractStatusTest_lastCode(endpoint) ==
    IF Len(successCodes(endpoint)) > 0
    THEN statusTest(successCodes(endpoint)[Len(successCodes(endpoint))])
    ELSE <<>>

contractStatusTest(endpoint) ==
    IF Len(successCodes(endpoint)) > 0
    THEN statusTest(successCodes(endpoint)[1])
    ELSE <<>>

\* lines 498-512: endpoint.responses['200'] || endpoint.responses['201']
contentTypeTest(endpoint) ==
    LET rs == endpoint.responses
        hasSuccessResponse == "200" \in DOMAIN rs \/ "201" \in DOMAIN rs
        successResponse == IF "200" \in DOMAIN rs THEN rs["200"] ELSE rs["201"]
    IN  IF /\ hasSuccessResponse
           /\ successResponse.hasContent
           /\ Len(successResponse.content) > 0
        THEN LET expectedType == splitFirst(successResponse.content[1].mediaType) IN
             << Line("// Content-Type validation", <<>>),
                Line("pm.test(\"Content-Type is ${expectedType}\", function () {",
                     expectedType),
                Line("    pm.response.to.have.header(\"Content-Type\");", <<>>),
                Line("    const contentType = pm.response.headers.get(\"Content-Type\");", <<>>),
                Line("    pm.expect(contentType).to.include(\"${expectedType}\");",
                     expectedType),
                Line("});", <<>>),
                Line("", <<>>) >>
        ELSE <<>>

\* lines 514-545
schemaTests(endpoint) ==
    LET s200 == getResponseSchema(endpoint.responses, "200")
        s201 == getResponseSchema(endpoint.responses, "201")
        schemaInfo == IF s200.found THEN s200 ELSE s201
        requiredFields == getRequiredFields(schemaInfo.schema)
    IN  IF schemaInfo.found
        THEN << Line("// JSON Schema validation", <<>>),
                Line("pm.test(\"Response matches schema structure\", function () {", <<>>),
                Line("    const jsonData = pm.response.json();", <<>>),
                Line("    ", <<>>),
                Line("    // Basic type validation", <<>>) >>
             \o (IF schemaInfo.schema.type = "object"
                 THEN << Line("    pm.expect(jsonData).to.be.an('object');", <<>>) >>
                 ELSE IF schemaInfo.schema.type = "array"
                 THEN << Line("    pm.expect(jsonData).to.be.an('array');", <<>>) >>
                 ELSE <<>>)
             \o << Line("});", <<>>), Line("", <<>>) >>
             \o (IF Len(requiredFields) > 0
                 THEN << Line("// Required field validation", <<>>),
                         Line("pm.test(\"Response has required fields\", function () {", <<>>),
                         Line("    const jsonData = pm.response.json();", <<>>),
                         Line("    const dataToCheck = Array.isArray(jsonData) ? (jsonData[0] || {}) : jsonData;", <<>>),
                         Line("    ", <<>>) >>
                      \o [i \in 1..Len(requiredFields) |->
                            Line("    pm.expect(dataToCheck).to.have.property('${field}');",
                                 <<requiredFields[i]>>)]
                      \o << Line("});", <<>>), Line("", <<>>) >>
                 ELSE <<>>)
        ELSE <<>>

\* lines 547-560
errorTest(endpoint) ==
    IF Len(errorCodes(endpoint)) > 0
    THEN << Line("// Error response structure validation", <<>>),
            Line("pm.test(\"Error responses have proper structure\", function () {", <<>>),
            Line("    if (pm.response.code >= 400) {", <<>>),
            Line("        const jsonData = pm.response.json();", <<>>),
            Line("        const hasErrorField = jsonData.hasOwnProperty('error') || jsonData.hasOwnProperty('message') || jsonData.hasOwnProperty('detail');", <<>>),
            Line("        pm.expect(hasErrorField).to.be.true;", <<>>),
            Line("    }", <<>>),
            Line("});", <<>>),
            Line("", <<>>) >>
    ELSE <<>>

generateContractTestScript(endpoint) ==
    << Line("// Contract tests for: ${endpoint.method} ${endpoint.path}",
            <<endpoint.method, endpoint.path>>),
       Line("// Comprehensive validation - generated from OpenAPI spec", <<>>),
       Line("", <<>>) >>
    \o contractStatusTest(endpoint)
    \o << Line("// Performance baseline check", <<>>) >>
    \o ResponseTimeTest
    \o contentTypeTest(endpoint)
    \o schemaTests(endpoint)
    \o errorTest(endpoint)

\* ---- lines 569-603 ----
generateDefaultSmokeTestScript ==
    << Line("// Default smoke tests", <<>>),
       Line("pm.test(\"Status code is success\", function () {", <<>>),
       Line("    pm.expect(pm.response.code).to.be.oneOf([200, 201, 204]);", <<>>),
       Line("});", <<>>),
       Line("", <<>>),
       Line("pm.test(\"Response time is acceptable\", function () {", <<>>),
       Line("    const threshold = parseInt(pm.environment.get(\"RESPONSE_TIME_THRESHOLD\") || \"2000\");", <<>>),
       Line("    pm.expect(pm.response.responseTime).to.be.below(threshold);", <<>>),
       Line("});", <<>>) >>

generateDefaultContractTestScript ==
    << Line("// Default contract tests", <<>>),
       Line("pm.test(\"Status code is valid\", function () {", <<>>),
       Line("    pm.expect(pm.response.code).to.be.oneOf([200, 201, 204]);", <<>>),
       Line("});", <<>>),
       Line("", <<>>),
       Line("pm.test(\"Response time is acceptable\", function () {", <<>>),
       Line("    const threshold = parseInt(pm.environment.get(\"RESPONSE_TIME_THRESHOLD\") || \"2000\");", <<>>),
       Line("    pm.expect(pm.response.responseTime).to.be.below(threshold);", <<>>),
       Line("});", <<>>),
       Line("", <<>>),
       Line("pm.test(\"Response body is valid JSON\", function () {", <<>>),
       Line("    pm.response.to.be.json;", <<>>),
       Line("});", <<>>) >>

\* ---- lines 387-416 ----
generateTestScript(endpoint, lvl) ==
    IF lvl = "smoke"
    THEN generateSmokeTestScript(endpoint)
    ELSE generateContractTestScript(endpoint)

\* `${endpoint.method} ${endpoint.path}`
MethodAndPath(endpoint) ==
    CASE endpoint.method = "GET" /\ endpoint.path = "/a" -> "GET /a"
      [] endpoint.method = "POST" /\ endpoint.path = "/a" -> "POST /a"

\* endpoint.name || `${endpoint.method} ${endpoint.path}`
testName(endpoint) ==
    IF endpoint.name # "" THEN endpoint.name ELSE MethodAndPath(endpoint)

\* mutant of generateTestScriptsForSpec: the object is not created by the
\* call, it is the object of the call before (a module-level testScripts)
generateTestScriptsForSpec_sharedObject(endpoints, lvl) ==
    LET object == IF genLog = <<>> THEN <<>> ELSE genLog[Len(genLog)].scripts
        names == { testName(endpoints[i]) : i \in 1..Len(endpoints) }
        last(n) == CHOOSE i \in 1..Len(endpoints) :
                      /\ testName(endpoints[i]) = n
                      /\ \A j \in (i + 1)..Len(endpoints) : testName(endpoints[j]) # n
    IN  [n \in DOMAIN object \cup names \cup {"default"} |->
            IF n = "default"
            THEN IF lvl = "smoke" THEN generateDefaultSmokeTestScript
                 ELSE generateDefaultContractTestScript
            ELSE IF n \in names THEN generateTestScript(endpoints[last(n)], lvl)
            ELSE object[n]]

\* the object built by the call: it starts as a new empty object (line
\* 388), the loop assigns the script of every endpoint under its name, a
\* later endpoint of the same name replacing the entry of an earlier one,
\* and the default entry is assigned last
generateTestScriptsForSpec(endpoints, lvl) ==
    LET object == <<>>
        names == { testName(endpoints[i]) : i \in 1..Len(endpoints) }
        last(n) == CHOOSE i \in 1..Len(endpoints) :
                      /\ testName(endpoints[i]) = n
                      /\ \A j \in (i + 1)..Len(endpoints) : testName(endpoints[j]) # n
    IN  [n \in DOMAIN object \cup names \cup {"default"} |->
            IF n = "default"
            THEN IF lvl = "smoke" THEN generateDefaultSmokeTestScript
                 ELSE generateDefaultContractTestScript
            ELSE IF n \in names THEN generateTestScript(endpoints[last(n)], lvl)
            ELSE object[n]]

\* the arguments and the result of one call
GenCall(endpoints, lvl) ==
    [endpoints |-> endpoints, level |-> lvl,
     scripts |-> generateTestScriptsForSpec(endpoints, lvl)]

GenInit ==
    /\ gpc = "input"
    /\ api \in Apis
    /\ level \in Levels
    /\ threshold = "2000"
    /\ scriptMap = <<>>
    /\ genLog = <<>>
    /\ InjectIdle
    /\ CollIdle
    /\ SyncIdle
    /\ TagIdle
    /\ AddIdle
    /\ CleanIdle

\* a call with the arguments api and level: the first one, and one more
\* after it or after a call with other arguments
GenerateTestScriptsForSpec ==
    /\ gpc \in {"input", "returned", "between"}
    /\ genLog' = Append(genLog, GenCall(api, level))
    /\ scriptMap' = IF gpc = "input" THEN LastCall(genLog').scripts ELSE scriptMap
    /\ gpc' = IF gpc = "input" THEN "returned" ELSE "again"
    /\ UNCHANGED <<api, level, threshold>>
    /\ UNCHANGED notGen

\* between the two, a call for another specification (one endpoint without
\* a name) at any level
GenerateForOtherSpec ==
    /\ gpc = "returned"
    /\ \E lvl \in Levels :
         genLog' = Append(genLog,
                          GenCall(<<Endpoint("POST", "/a", "",
                                             [c \in {"201", "404"} |-> Response(FALSE, <<>>)])>>,
                                  lvl))
    /\ gpc' = "between"
    /\ UNCHANGED <<api, level, threshold, scriptMap>>
    /\ UNCHANGED notGen

\* the environment of the process changes between the calls
ProcessStateChanges ==
    /\ gpc \in {"returned", "between"}
    /\ threshold' \in Thresholds \ {threshold}
    /\ UNCHANGED <<gpc, api, level, scriptMap, genLog>>
    /\ UNCHANGED notGen

GenNext ==
    \/ GenerateTestScriptsForSpec
    \/ GenerateForOtherSpec
    \/ ProcessStateChanges

GenSpec == GenInit /\ [][GenNext]_vars

\* ---- reading a generated script ----
OneOfText == "    pm.expect(pm.response.code).to.be.oneOf([${successCodes.join(', ')}]);"
StatusText == "    pm.response.to.have.status(${expectedCode});"
LatencyText == "    pm.expect(pm.response.responseTime).to.be.below(threshold);"
BodyDefinedText == "            pm.expect(jsonData).to.not.be.undefined;"
HeaderText == "    pm.response.to.have.header(\"Content-Type\");"
IncludeText == "    pm.expect(contentType).to.include(\"${expectedType}\");"
TypeTexts == { "    pm.expect(jsonData).to.be.an('object');",
               "    pm.expect(jsonData).to.be.an('array');" }
PropertyText == "    pm.expect(dataToCheck).to.have.property('${field}');"
ErrorText == "        pm.expect(hasErrorField).to.be.true;"

LinesWith(script, text) == { i \in 1..Len(script) : script[i].t = text }
HasLine(script, text) == LinesWith(script, text) # {}

\* what the expectations of a script are about
AssertionKinds(script) ==
    (IF HasLine(script, OneOfText) \/ HasLine(script, StatusText) THEN {"status"} ELSE {})
    \cup (IF HasLine(script, LatencyText) THEN {"latency"} ELSE {})
    \cup (IF HasLine(script, BodyDefinedText) THEN {"body"} ELSE {})
    \cup (IF HasLine(script, HeaderText) \/ HasLine(script, IncludeText)
          THEN {"contentType"} ELSE {})
    \cup (IF \E t \in TypeTexts : HasLine(script, t) THEN {"schema"} ELSE {})
    \cup (IF HasLine(script, PropertyText) THEN {"required"} ELSE {})
    \cup (IF HasLine(script, ErrorText) THEN {"error"} ELSE {})

\* the declared 2xx codes of an endpoint and their numbers
Declared2xx(endpoint) == { c \in DOMAIN endpoint.responses : c \in {"200", "201", "202"} }
CodeNumber(c) ==
    CASE c = "200" -> 200 [] c = "201" -> 201 [] c = "202" -> 202
      [] c = "404" -> 404 [] c = "500" -> 500

\* the endpoints whose script the map holds under their own name
Holders ==
    { i \in 1..Len(api) :
        /\ testName(api[i]) # "default"
        /\ \A j \in (i + 1)..Len(api) : testName(api[j]) # testName(api[i]) }

C24_ContractSupersetOfSmoke ==
    gpc # "input" =>
        \A i \in 1..Len(api) :
            LET smoke == AssertionKinds(generateSmokeTestScript(api[i]))
                contract == AssertionKinds(generateContractTestScript(api[i]))
                covered == contract \cup (IF "schema" \in contract THEN {"body"} ELSE {})
            IN  /\ smoke \subseteq covered
                /\ smoke # covered
                /\ smoke \cap {"schema", "required", "contentType", "error"} = {}

\* C25: for every endpoint in which some declared 2xx response declares a
\* content type, the contract script contains a content-type assertion that
\* requires the header to be present and to contain the first declared
\* media type of that response without the parameters after ';'; this holds
\* for every 2xx code (202 as well), not only for 200 and 201.
C25_ContentTypeForEvery2xx ==
    (gpc # "input" /\ level = "contract") =>
        \A i \in Holders :
            LET script == scriptMap[testName(api[i])]
                typed == { c \in Declared2xx(api[i]) :
                             /\ api[i].responses[c].hasContent
                             /\ api[i].responses[c].content # <<>> }
            IN  typed # {} =>
                  /\ HasLine(script, HeaderText)
                  /\ \E c \in typed : \E k \in LinesWith(script, IncludeText) :
                        script[k].a = <<api[i].responses[c].content[1].mediaType[1]>>

\* C26: the map returned by generateTestScriptsForSpec, for every spec and
\* tier, contains a "default" entry equal to that tier's fixed default
\* template, and every other key corresponds to exactly one endpoint's
\* display name and holds the script generated for that endpoint; so a
\* lookup by any request name, with fallback to "default", yields a script.
C26_MapKeysAreEndpoints ==
    gpc # "input" =>
        /\ "default" \in DOMAIN scriptMap
        /\ scriptMap["default"] = IF level = "smoke"
                                  THEN generateDefaultSmokeTestScript
                                  ELSE generateDefaultContractTestScript
        /\ \A n \in DOMAIN scriptMap \ {"default"} :
              LET named == { i \in 1..Len(api) : testName(api[i]) = n } IN
              /\ Cardinality(named) = 1
              /\ \A i \in named : scriptMap[n] = generateTestScript(api[i], level)

\* C28: the smoke script's status assertion lists exactly the set of all
\* 2xx codes declared for the endpoint (oneOf) and is omitted iff no 2xx
\* code is declared; the latency assertion and the body-defined check are
\* always present; the smoke script never contains a schema-type,
\* required-field, content-type or error-structure assertion.
C28_SmokeAssertions ==
    (gpc # "input" /\ level = "smoke") =>
        \A i \in Holders :
            LET script == scriptMap[testName(api[i])]
                oneOf == LinesWith(script, OneOfText)
            IN  /\ Cardinality(oneOf) = IF Declared2xx(api[i]) = {} THEN 0 ELSE 1
                /\ \A k \in oneOf :
                      /\ { script[k].a[j] : j \in 1..Len(script[k].a) } = Declared2xx(api[i])
                      /\ Len(script[k].a) = Cardinality(Declared2xx(api[i]))
                /\ ~HasLine(script, StatusText)
                /\ Cardinality(LinesWith(script, LatencyText)) = 1
                /\ Cardinality(LinesWith(script, BodyDefinedText)) = 1
                /\ AssertionKinds(script) \subseteq {"status", "latency", "body"}

C28_Witness ==
    /\ gpc = "returned"
    /\ level = "smoke"
    /\ Len(api) = 1
    /\ DOMAIN api[1].responses = {"200", "202", "404"}
    /\ \E k \in LinesWith(scriptMap["a"], OneOfText) : scriptMap["a"][k].a = <<"200", "202">>

\* C29: the contract script's status assertion requires equality with
\* exactly one code, the first (numerically smallest) 2xx code declared for
\* the endpoint, and is omitted iff no 2xx code is declared.
C29_ContractStatusIsFirst2xx ==
    (gpc # "input" /\ level = "contract") =>
        \A i \in Holders :
            LET script == scriptMap[testName(api[i])]
                status == LinesWith(script, StatusText)
            IN  /\ Cardinality(status) = IF Declared2xx(api[i]) = {} THEN 0 ELSE 1
                /\ ~HasLine(script, OneOfText)
                /\ \A k \in status :
                      /\ Len(script[k].a) = 1
                      /\ script[k].a[1] \in Declared2xx(api[i])
                      /\ \A c \in Declared2xx(api[i]) :
                            CodeNumber(script[k].a[1]) <= CodeNumber(c)

C29_Witness ==
    /\ gpc = "returned"
    /\ level = "contract"
    /\ Len(api) = 1
    /\ DOMAIN api[1].responses = {"201", "202"}
    /\ \E k \in LinesWith(scriptMap["a"], StatusText) : scriptMap["a"][k].a = <<"201">>

(***************************************************************************)
(* Further properties of generateOrSyncCollection.                         *)
(***************************************************************************)
\* C31: when generateOrSyncCollection takes the generation path, the uid it
\* returns is the uid of the collection that its own generation request
\* created, also when the workspace already holds another collection of the
\* same name that is not in the generation listing of the spec.
C31_ReturnsOwnGeneratedUid ==
    (cpc = "returned" /\ existing = NoGen) => cret = NewColl.uid

\* C32: a failed generation-listing call counts as an empty listing: the
\* call goes on to the generation path and its next request is the
\* generation request, also when the listing of the spec holds a collection
\* of the requested name; the failure of the listing raises no error.
C32_FailedListingGenerates ==
    /\ [][(cpc = "start" /\ cpc' # "start" /\ ~LastCall(ccalls').ok)
            => (cpc' = "generate" /\ existing' = NoGen /\ cerr' = "")]_vars
    /\ []((ccalls # <<>> /\ ~ccalls[1].ok) =>
            /\ SyncCalls = {}
            /\ cpc \notin {"sync", "waitSync", "resolveSynced"}
            /\ Len(ccalls) >= 2 => IsGenerationCall(ccalls[2])
            /\ cpc = "threw" => Len(ccalls) >= 2)

C32_Witness ==
    /\ \E i \in 1..Len(genList) : genList[i] = Gen(G1)
    /\ Len(ccalls) = 2
    /\ IsGenerationListing(ccalls[1]) /\ ~ccalls[1].ok
    /\ IsGenerationCall(ccalls[2]) /\ ccalls[2].ok
    /\ cpc = "waitGen"

\* the listings of waitForCollectionGeneration
GenerationPolls == { i \in 1..Len(ccalls) : ccalls[i].poll /\ ccalls[i].r = "collections" }

\* C33: a workspace listing that fails inside waitForCollectionGeneration
\* ends the call at once with the error of the request, whatever the number
\* of attempts made so far, and no further listing follows; a fetch that
\* fails inside waitForCollectionSync raises nothing and is followed by the
\* next attempt while attempts are left.
C33_FailedGenerationPollThrows ==
    /\ [][(cpc = "waitGen" /\ ccalls' # ccalls /\ ~LastCall(ccalls').ok)
            => /\ cpc' = "threw"
               /\ cerr' = "api_error"
               /\ attempt' = attempt
               /\ attempt' < GenMaxAttempts]_vars
    /\ [](\A i \in GenerationPolls : ~ccalls[i].ok => i = Len(ccalls))
    /\ [][(cpc = "waitSync" /\ ccalls' # ccalls /\ ~LastCall(ccalls').ok)
            => /\ cpc' # "threw"
               /\ cerr' = ""
               /\ attempt' = attempt + 1
               /\ attempt' < SyncMaxAttempts => cpc' = "waitSync"]_vars

C33_Witness ==
    /\ cpc = "threw"
    /\ cerr = "api_error"
    /\ attempt = 1
    /\ Cardinality(GenerationPolls) = 2
    /\ ~LastCall(ccalls).ok
    /\ LastCall(ccalls).poll

(***************************************************************************)
(* Further properties of the orchestrator.                                 *)
(***************************************************************************)
\* C34 as stated: when the spec lookup of ResolveExistingSpec fails, the run
\* goes on: no spec id is kept, the next stage is UploadSpec and it issues
\* the create call (POST), whether or not the remote holds a spec of that
\* name.
C34_FailedLookupCreates ==
    /\ [][(pc = "resolve" /\ pc' # "resolve" /\ ~LastCall(calls').ok)
            => (pc' = "upload" /\ specId' = 0)]_vars
    /\ [][(pc = "upload" /\ pc' # "upload" /\ ~LastCall(calls).ok)
            => /\ IsSpecLookup(LastCall(calls))
               /\ LastCall(calls').m = "POST"
               /\ LastCall(calls').r = "specs"
               /\ Len(calls') = Len(calls) + 1]_vars

\* C34 amended: when the spec lookup of ResolveExistingSpec fails, the run
\* goes on: no spec id is kept and the next stage is UploadSpec; when the
\* spec file cannot be read again there, the stage issues no request and
\* the run ends with exit code 1 and the remote store as it was; otherwise
\* its one request is the create call (POST), whether or not the remote
\* holds a spec of that name.
C34_FailedLookupCreatesIfReadable ==
    /\ [][(pc = "resolve" /\ pc' # "resolve" /\ ~LastCall(calls').ok)
            => (pc' = "upload" /\ specId' = 0)]_vars
    /\ [][(pc = "upload" /\ pc' # "upload" /\ ~LastCall(calls).ok)
            => /\ IsSpecLookup(LastCall(calls))
               /\ IF calls' = calls
                  THEN pc' = "exit1" /\ specs' = specs
                  ELSE /\ LastCall(calls').m = "POST"
                       /\ LastCall(calls').r = "specs"
                       /\ Len(calls') = Len(calls) + 1]_vars

C34_Witness ==
    /\ pc = "docs"
    /\ Len(calls) = 2
    /\ IsSpecLookup(calls[1]) /\ ~calls[1].ok
    /\ calls[2] = Call("POST", "specs", 0, TRUE)
    /\ NameCount(specs) = 2

\* the tier values that sync compares the selector with
KnownTiers == {"smoke", "contract", "all"}

\* the stages of a complete run in which no tier stage is selected
StagesWithoutTiers ==
    << "ParseSpec", "ResolveExistingSpec", "UploadSpec", "GenerateDocsCollection",
       "UpsertEnvironment", "Summarize" >>

\* C37: a tier selector other than 'smoke', 'contract' and 'all' is not
\* rejected by the option validation; in such a run neither the smoke nor
\* the contract stage executes, the docs generation is followed by the
\* environment upsert, and a run that ends normally has uploaded the spec,
\* attempted the docs generation and written the environment.
C37_UnknownTierSkipsTierStages ==
    /\ [][(pc = "validate" /\ pc' # "validate" /\ ~MissingRequiredOption)
            => pc' = "parse"]_vars
    /\ [](opts.testLevel \notin KnownTiers =>
            /\ ~InStages("GenerateSmokeCollection")
            /\ ~InStages("GenerateContractCollection")
            /\ pc \notin {"smoke", "contract"}
            /\ \A i \in 1..Len(timeline) : timeline[i] = CollectionCall("docs")
            /\ (pc = "done" /\ ~opts.dryRun) =>
                  /\ stages = StagesWithoutTiers
                  /\ timeline = <<CollectionCall("docs")>>
                  /\ UploadWrites # {}
                  /\ LastCall(calls).r = "environments"
                  /\ LastCall(calls).m \in {"PUT", "POST"}
                  /\ NoCallFailed \/ lookupFailed)
    /\ [][(pc = "docs" /\ pc' # "docs" /\ opts.testLevel \notin KnownTiers)
            => pc' = "env"]_vars

C37_Witness ==
    /\ pc = "done"
    /\ opts.testLevel = "full"
    /\ ~opts.dryRun
    /\ stages = StagesWithoutTiers
    /\ timeline = <<CollectionCall("docs")>>
    /\ LastCall(calls) = Call("POST", "environments", 0, TRUE)

(***************************************************************************)
(* Further properties of addTestScripts.                                   *)
(***************************************************************************)
\* the write-backs of addTestScripts
WriteBacks == { i \in 1..Len(acalls) : acalls[i].m = "PUT" }

\* C35: addTestScripts sends one fetch (GET) of the collection and then one
\* write-back (PUT) to the same uid, whose body is the fetched tree with the
\* scripts injected; when the fetch fails no write-back is sent and the
\* call leaves the remote collection as it is.
C35_OneFetchOneWriteBack ==
    /\ [](/\ Len(acalls) <= 2
          /\ \A i \in 1..Len(acalls) : acalls[i].m = (IF i = 1 THEN "GET" ELSE "PUT")
          /\ \A i \in WriteBacks : acalls[1].ok /\ acalls[i].id = acalls[1].id
          /\ apc = "returned" => Len(acalls) = 2
          /\ (acalls # <<>> /\ ~acalls[1].ok) => (apc = "threw" /\ WriteBacks = {}))
    /\ [][(apc = "fetch" /\ apc' # "fetch") =>
            /\ remoteItem' = remoteItem
            /\ apc' = IF LastCall(acalls').ok THEN "write" ELSE "threw"
            /\ LastCall(acalls').ok =>
                  localItem' = addTestsToItems(remoteItem, addScripts).items]_vars
    /\ [][(apc = "write" /\ apc' # "write") =>
            /\ Len(acalls') = 2
            /\ LastCall(acalls').ok => remoteItem' = localItem
            /\ ~LastCall(acalls').ok => remoteItem' = remoteItem]_vars

(***************************************************************************)
(* Further properties of addTestsToItems.                                  *)
(***************************************************************************)
\* C36: injection is idempotent: a second call of addTestsToItems with the
\* same script map leaves the tree as the first call left it, and a call
\* with map A followed by a call with map B gives the tree that a single
\* call with map B gives.
C36_InjectionIdempotent ==
    ipc = "again" =>
        /\ scriptsAgain = scripts => outAgain = out
        /\ outAgain = addTestsToItems(tree, scriptsAgain).items

(***************************************************************************)
(* scripts/cleanup-collections.js: main() lists the collections of the     *)
(* workspace once, sorts them by KEEP_COLLECTIONS and sends one DELETE for *)
(* each of the others.  Every request is one step; its response has a      *)
(* status of the 2xx class (200), 404, or another non-2xx status (500).    *)
(* An error that leaves main ends the process with exit code 1.            *)
(***************************************************************************)
MaxOrphans == 2     \* collections of the workspace that are not in KEEP_COLLECTIONS

KEEP_COLLECTIONS ==
    << "17929829-be7ebff7-004e-4119-a147-6366aff706ce",
       "17929829-87ba4ad4-47ec-4c0e-828e-15be17146612",
       "17929829-0dd01e53-6869-48c4-b746-9daa32438582",
       "17929829-c0e8f9e8-d8ab-4dfa-8713-7671848e667b" >>

\* Array.prototype.includes
includes(array, x) == \E i \in 1..Len(array) : array[i] = x

\* a collection of the workspace listing
CleanColl(uid, name) == [uid |-> uid, name |-> name]

\* the canonical collections the workspace may hold
KeptColls ==
    { CleanColl(KEEP_COLLECTIONS[1], "Task Management API"),
      CleanColl(KEEP_COLLECTIONS[3], "Task Management API - Smoke Tests") }

OrphanUids ==
    << "17929829-00000000-0000-0000-0000-000000000001",
       "17929829-00000000-0000-0000-0000-000000000002",
       "17929829-00000000-0000-0000-0000-000000000003",
       "17929829-00000000-0000-0000-0000-000000000004" >>

\* the duplicates and test collections the workspace may hold
OrphanColls ==
    { CleanColl(OrphanUids[i], "Task Management API") : i \in 1..MaxOrphans }

CleanWorkspaces == UNION { SeqsOf(T) : T \in SUBSET (KeptColls \cup OrphanColls) }

ResponseStatuses == {200, 404, 500}

\* response.ok
ResponseOk(st) == st \in 200..299

\* one request of the script as the service sees it, with the status of the
\* response; uid is "" for the listing
CleanRequest(method, uid, st) == [m |-> method, uid |-> uid, status |-> st]

\* what apiRequest does with a response: throw, return null, return the body
apiRequest(st) ==
    IF ~ResponseOk(st) /\ st # 404 THEN "throws"
    ELSE IF st = 404 THEN "null"
    ELSE "json"

IsKept(c) == includes(KEEP_COLLECTIONS, c.uid)
IsNotKept(c) == ~includes(KEEP_COLLECTIONS, c.uid)

CleanInit ==
    /\ cleanPc = "list"
    /\ cleanRemote \in CleanWorkspaces
    /\ collections = <<>>
    /\ toKeep = <<>>
    /\ toDelete = <<>>
    /\ deleteCount = 0
    /\ cleanCalls = <<>>
    /\ cleanLog = <<>>
    /\ InjectIdle
    /\ CollIdle
    /\ SyncIdle
    /\ TagIdle
    /\ AddIdle
    /\ GenIdle

\* mutant of ListCollections: every listed collection goes to toDelete
ListCollections_keepsNothing ==
    /\ cleanPc = "list"
    /\ \E st \in ResponseStatuses :
         /\ cleanCalls' = Append(cleanCalls, CleanRequest("GET", "", st))
         /\ IF apiRequest(st) = "json"
            THEN /\ collections' = cleanRemote
                 /\ toKeep' = <<>>
                 /\ toDelete' = cleanRemote
                 /\ cleanPc' = IF toDelete' = <<>> THEN "done" ELSE "delete"
            ELSE /\ cleanPc' = "exit1"
                 /\ UNCHANGED <<collections, toKeep, toDelete>>
    /\ UNCHANGED <<cleanRemote, deleteCount, cleanLog>>
    /\ UNCHANGED notClean

\* lines 48-78: the listing request and the sorting into toKeep and toDelete;
\* an error thrown by apiRequest, or the read of .collections of the null
\* that apiRequest returns for a 404, leaves main
ListCollections ==
    /\ cleanPc = "list"
    /\ \E st \in ResponseStatuses :
         /\ cleanCalls' = Append(cleanCalls, CleanRequest("GET", "", st))
         /\ IF apiRequest(st) = "json"
            THEN /\ collections' = cleanRemote
                 /\ toKeep' = SelectSeq(cleanRemote, IsKept)
                 /\ toDelete' = SelectSeq(cleanRemote, IsNotKept)
                 /\ cleanPc' = IF toDelete' = <<>> THEN "done" ELSE "delete"
            ELSE /\ cleanPc' = "exit1"
                 /\ UNCHANGED <<collections, toKeep, toDelete>>
    /\ UNCHANGED <<cleanRemote, deleteCount, cleanLog>>
    /\ UNCHANGED notClean

\* mutant of DeleteCollection: the error of a delete is not caught
DeleteCollection_propagates ==
    /\ cleanPc = "delete"
    /\ deleteCount < Len(toDelete)
    /\ LET collection == toDelete[deleteCount + 1] IN
       \E st \in ResponseStatuses :
         /\ cleanCalls' = Append(cleanCalls, CleanRequest("DELETE", collection.uid, st))
         /\ cleanRemote' = IF apiRequest(st) = "throws" THEN cleanRemote
                           ELSE SelectSeq(cleanRemote, LAMBDA c : c.uid # collection.uid)
         /\ cleanLog' = Append(cleanLog, [uid |-> collection.uid,
                                          deleted |-> apiRequest(st) # "throws"])
         /\ deleteCount' = deleteCount + 1
         /\ cleanPc' = IF apiRequest(st) = "throws" THEN "exit1"
                       ELSE IF deleteCount + 1 = Len(toDelete) THEN "done"
                       ELSE "delete"
    /\ UNCHANGED <<collections, toKeep, toDelete>>
    /\ UNCHANGED notClean

\* one iteration of the loop of lines 80-87: the DELETE request inside
\* try/catch; a 2xx and a 404 print "Deleted", an error prints "Failed to
\* delete"; after the last iteration main returns (line 89).  A collection
\* that answers 404 is gone from the workspace.
DeleteCollection ==
    /\ cleanPc = "delete"
    /\ deleteCount < Len(toDelete)
    /\ LET collection == toDelete[deleteCount + 1] IN
       \E st \in ResponseStatuses :
         /\ cleanCalls' = Append(cleanCalls, CleanRequest("DELETE", collection.uid, st))
         /\ cleanRemote' = IF apiRequest(st) = "throws" THEN cleanRemote
                           ELSE SelectSeq(cleanRemote, LAMBDA c : c.uid # collection.uid)
         /\ cleanLog' = Append(cleanLog, [uid |-> collection.uid,
                                          deleted |-> apiRequest(st) # "throws"])
         /\ deleteCount' = deleteCount + 1
         /\ cleanPc' = IF deleteCount + 1 = Len(toDelete) THEN "done" ELSE "delete"
    /\ UNCHANGED <<collections, toKeep, toDelete>>
    /\ UNCHANGED notClean

CleanNext ==
    \/ ListCollections
    \/ DeleteCollection

CleanSpec == CleanInit /\ [][CleanNext]_vars

\* the script keeps running: every delete request gets its response
CleanLiveSpec == CleanSpec /\ WF_vars(DeleteCollection)

(***************************************************************************)
(* Properties of the cleanup script.                                       *)
(***************************************************************************)
\* the delete requests sent for the uid
DeletesOf(uid) ==
    { i \in 1..Len(cleanCalls) : cleanCalls[i].m = "DELETE" /\ cleanCalls[i].uid = uid }

\* C38: the cleanup script sends no delete for a uid of KEEP_COLLECTIONS and
\* one delete, never more, for every other collection of the listing; the
\* listing is requested once, as the first request of the script.
C38_DeletesExactlyTheOthers ==
    /\ \A i \in 1..Len(cleanCalls) :
          /\ cleanCalls[i].m = (IF i = 1 THEN "GET" ELSE "DELETE")
          /\ i > 1 => /\ ~includes(KEEP_COLLECTIONS, cleanCalls[i].uid)
                      /\ \E j \in 1..Len(collections) :
                            collections[j].uid = cleanCalls[i].uid
    /\ \A j \in 1..Len(collections) :
          Cardinality(DeletesOf(collections[j].uid)) <=
              (IF includes(KEEP_COLLECTIONS, collections[j].uid) THEN 0 ELSE 1)
    /\ cleanPc = "done" =>
          \A j \in 1..Len(collections) :
              ~includes(KEEP_COLLECTIONS, collections[j].uid)
                  => Cardinality(DeletesOf(collections[j].uid)) = 1

C38_Witness ==
    /\ cleanPc = "done"
    /\ Len(collections) = 2 + MaxOrphans
    /\ Len(toKeep) = 2
    /\ Len(cleanCalls) = 1 + MaxOrphans
    /\ \A c \in KeptColls : DeletesOf(c.uid) = {}
    /\ \A c \in OrphanColls : Cardinality(DeletesOf(c.uid)) = 1

\* C39: a delete that fails with a non-2xx status other than 404 does not
\* end the loop: the script goes on with the next collection of toDelete,
\* every collection of toDelete gets its delete request and main returns
\* normally; a delete answered with 404 is reported like a successful one.
C39_FailedDeleteContinues ==
    /\ [][(cleanPc = "delete" /\ cleanCalls' # cleanCalls) =>
            /\ cleanPc' # "exit1"
            /\ deleteCount' = deleteCount + 1
            /\ LastCall(cleanCalls').uid = toDelete[deleteCount'].uid
            /\ LastCall(cleanLog').uid = LastCall(cleanCalls').uid
            /\ LastCall(cleanLog').deleted =
                  (LastCall(cleanCalls').status \in {200, 404})
            /\ cleanPc' = IF deleteCount' < Len(toDelete) THEN "delete" ELSE "done"]_vars
    /\ [](cleanPc = "exit1" => Len(cleanCalls) = 1)
    /\ [](cleanPc = "done" =>
            /\ deleteCount = Len(toDelete)
            /\ \A k \in 1..Len(toDelete) :
                  /\ cleanCalls[k + 1].m = "DELETE"
                  /\ cleanCalls[k + 1].uid = toDelete[k].uid)
    /\ (cleanPc = "delete") ~> (cleanPc = "done")

C39_Witness ==
    /\ cleanPc = "done"
    /\ Len(toDelete) = 2
    /\ cleanCalls[2].m = "DELETE" /\ cleanCalls[2].status = 500
    /\ cleanCalls[3].m = "DELETE" /\ cleanCalls[3].status = 404
    /\ ~cleanLog[1].deleted
    /\ cleanLog[2].deleted
    /\ Len(cleanRemote) = Len(collections) - 1

====
